---- MODULE Spec2Model ----
(***************************************************************************)
(* A model of transmute's streaming XML-to-object parser                   *)
(* (transmute/Parsing/Parser.py, transmute/Parsing/Parsable.py) together   *)
(* with the element vocabulary of transmute/plugins/base.py and            *)
(* transmute/plugins/wireshark.py that drives it.                          *)
(*                                                                         *)
(* XML text is a sequence of lexemes: "<" (an opening "<tag attrs"), ">",  *)
(* "/>", "</" (a closing "</tag") and "c" (one chunk of character data).   *)
(* pulldom's event stream, expandNode, minidom's toxml and the string      *)
(* slicing of getSubXml are operators over these sequences.                *)
(***************************************************************************)
EXTENDS Integers, Sequences, FiniteSets, TLC

VARIABLES
  registry, \* Parser.__parsables: the class registered for a tag
  registered, \* history: the classes given to registerParsable, in order
  doc,      \* the text of the input document
  run,      \* 1: the parse of a document; 2: the parse of a subtree's markup;
            \* 3: the parse of the document of run 1 once more
  expect,   \* in run 2: the children the subtree's element got in run 1;
            \* in run 3: the object graphs of the results of run 1
  frames,   \* the _parse_evt_stream invocations in progress, the outer one first
  heap,     \* the Parsable instances created so far, by id
  anon,     \* the next value of base._anon_counter
  log,      \* history: the calls on the instances and the yields, in order
  results,  \* the elements the caller of parse has pulled
  validated, \* the pulled elements whose Validate(None) returned
  pushed,   \* the elements main handed to dispatcher.push, in order
  wireshark, \* args_ns.wireshark: the command line had -ws
  raised,   \* the node whose Validate raised the exception of the pass, or 0
  status,   \* "new" (nothing is registered yet), "idle", "running",
            \* "validating", "pushing" (main's loop body before Validate and
            \* before push), "done", "error" (an exception left parse) or
            \* "invalid" (an exception left main's loop body)
  err       \* the exception that reached the caller, "" when none

vars ==
  <<registry, registered, doc, run, expect, frames, heap, anon, log, results,
    validated, pushed, wireshark, raised, status, err>>

(***************************************************************************)
(* Bounds of the model.                                                    *)
(***************************************************************************)
\* the largest number of nodes (elements and text chunks) of an input document
MaxNodes == 3

\* the largest number of registerParsable calls on one parser
MaxRegistrations == 3

(***************************************************************************)
(* Small helpers.                                                          *)
(***************************************************************************)
Last(s) == s[Len(s)]

Front(s) == SubSeq(s, 1, Len(s) - 1)

Range(s) == {s[i] : i \in DOMAIN s}

Max(a, b) == IF a >= b THEN a ELSE b

Min(a, b) == IF a <= b THEN a ELSE b

\* the value of attribute k in the attribute set a (a set of <<name, value>>), or "" (None)
Attr(a, k) == IF \E p \in a : p[1] = k THEN (CHOOSE p \in a : p[1] = k)[2] ELSE ""

HasAttr(a, k) == \E p \in a : p[1] = k

(***************************************************************************)
(* XML text.                                                               *)
(***************************************************************************)
Lex(t, tag, attrs, id) == [t |-> t, tag |-> tag, attrs |-> attrs, id |-> id]

LexOpen(tag, attrs, id) == Lex("<", tag, attrs, id)

LexGt == Lex(">", "", {}, 0)

LexEmptyGt == Lex("/>", "", {}, 0)

LexClose(tag) == Lex("</", tag, {}, 0)

LexChars(ch) == Lex("c", ch, {}, 0)

\* a processing instruction <?target ...?> and a comment <!-- ... -->
LexPi(target) == Lex("?", target, {}, 0)

LexComment(data) == Lex("!", data, {}, 0)

\* str.strip(): the characters Python treats as whitespace
IsSpace(l) == l.t = "c" /\ l.tag = " "

(***************************************************************************)
(* pulldom events.                                                         *)
(***************************************************************************)
Event(evt, name, attrs, id) == [evt |-> evt, name |-> name, attrs |-> attrs, id |-> id]

RECURSIVE Tok(_, _)
\* the SAX events of the lexemes s[i..]; the stream's parser has a content
\* handler only, so a comment, which goes to the lexical handler, is no event
Tok(s, i) ==
  IF i > Len(s) THEN <<>>
  ELSE IF s[i].t = "<"
       THEN (IF s[i + 1].t = "/>"
             THEN <<Event("START_ELEMENT", s[i].tag, s[i].attrs, s[i].id),
                    Event("END_ELEMENT", s[i].tag, {}, s[i].id)>>
             ELSE <<Event("START_ELEMENT", s[i].tag, s[i].attrs, s[i].id)>>)
            \o Tok(s, i + 2)
       ELSE IF s[i].t = "</"
            THEN <<Event("END_ELEMENT", s[i].tag, {}, 0)>> \o Tok(s, i + 2)
       ELSE IF s[i].t = "?"
            THEN <<Event("PROCESSING_INSTRUCTION", s[i].tag, {}, 0)>> \o Tok(s, i + 1)
       ELSE IF s[i].t = "!" THEN Tok(s, i + 1)
            ELSE <<Event("CHARACTERS", s[i].tag, {}, 0)>> \o Tok(s, i + 1)

\* pulldom.parse / pulldom.parseString: the event stream of a text
DOMEventStream(s) ==
  <<Event("START_DOCUMENT", "", {}, 0)>> \o Tok(s, 1) \o <<Event("END_DOCUMENT", "", {}, 0)>>

(***************************************************************************)
(* minidom nodes as built by DOMEventStream.expandNode.                    *)
(***************************************************************************)
DomNode(tag, attrs, id, kids) == [tag |-> tag, attrs |-> attrs, id |-> id, kids |-> kids]

DomText(data) == DomNode("#text", {}, 0, <<data>>)

DomPi(target) == DomNode("?", {}, 0, <<target>>)

AppendChild(parents, kid) ==
  [parents EXCEPT ![Len(parents)].kids = Append(@, kid)]

RECURSIVE Expand(_, _, _)
\* expandNode's loop from event i on, parents being the open nodes (the node
\* being expanded first); returns <<the expanded node, the next event's index>>
Expand(evts, i, parents) ==
  IF i > Len(evts) THEN <<parents[1], i>>
  ELSE LET e == evts[i] IN
    IF e.evt = "END_ELEMENT" /\ Len(parents) = 1 THEN <<parents[1], i + 1>>
    ELSE IF e.evt = "START_ELEMENT"
         THEN Expand(evts, i + 1, Append(parents, DomNode(e.name, e.attrs, e.id, <<>>)))
    ELSE IF e.evt = "END_ELEMENT"
         THEN Expand(evts, i + 1, AppendChild(Front(parents), Last(parents)))
    ELSE IF e.evt = "CHARACTERS"
         THEN Expand(evts, i + 1, AppendChild(parents, DomText(e.name)))
    ELSE IF e.evt = "PROCESSING_INSTRUCTION"
         THEN Expand(evts, i + 1, AppendChild(parents, DomPi(e.name)))
    ELSE Expand(evts, i + 1, parents)

\* evt_stream.expandNode(node), the START_ELEMENT of node being event i - 1
expandNode(evts, i) ==
  Expand(evts, i, <<DomNode(evts[i - 1].name, evts[i - 1].attrs, evts[i - 1].id, <<>>)>>)

RECURSIVE toxml(_)
RECURSIVE toxmlAll(_)
\* node.toxml(): an element without child nodes is written "<tag/>"
toxml(n) ==
  IF n.tag = "#text" THEN <<LexChars(n.kids[1])>>
  ELSE IF n.tag = "?" THEN <<LexPi(n.kids[1])>>
  ELSE IF n.kids = <<>> THEN <<LexOpen(n.tag, n.attrs, n.id), LexEmptyGt>>
  ELSE <<LexOpen(n.tag, n.attrs, n.id), LexGt>> \o toxmlAll(n.kids)
       \o <<LexClose(n.tag), LexGt>>

toxmlAll(kids) ==
  IF kids = <<>> THEN <<>> ELSE toxml(Head(kids)) \o toxmlAll(Tail(kids))

(***************************************************************************)
(* Python string operations used by getSubXml; indices are 0-based.        *)
(***************************************************************************)
\* s.find('>'): the index of the first lexeme holding a '>', or -1
FindGt(s) ==
  LET hits == {i \in DOMAIN s : s[i].t \in {">", "/>"}}
  IN IF hits = {} THEN -1 ELSE (CHOOSE i \in hits : \A j \in hits : i <= j) - 1

\* fault variant of RFindClose: s.find('</'), the first "</"
FindClose(s) ==
  LET hits == {i \in DOMAIN s : s[i].t = "</"}
  IN IF hits = {} THEN -1 ELSE (CHOOSE i \in hits : \A j \in hits : i <= j) - 1

\* s.rfind('</'): the index of the last lexeme "</", or -1
RFindClose(s) ==
  LET hits == {i \in DOMAIN s : s[i].t = "</"}
  IN IF hits = {} THEN -1 ELSE (CHOOSE i \in hits : \A j \in hits : i >= j) - 1

\* s[a:b]
PySlice(s, a, b) ==
  LET lo == IF a < 0 THEN Max(Len(s) + a, 0) ELSE Min(a, Len(s))
      hi == IF b < 0 THEN Max(Len(s) + b, 0) ELSE Min(b, Len(s))
  IN IF lo >= hi THEN <<>> ELSE SubSeq(s, lo + 1, hi)

RECURSIVE LStrip(_)
LStrip(s) == IF s # <<>> /\ IsSpace(Head(s)) THEN LStrip(Tail(s)) ELSE s

RECURSIVE RStrip(_)
RStrip(s) == IF s # <<>> /\ IsSpace(Last(s)) THEN RStrip(Front(s)) ELSE s

\* s.strip()
Strip(s) == RStrip(LStrip(s))

\* '<_>{}</_>'.format(s)
WrapPseudo(s) == <<LexOpen("_", {}, 0), LexGt>> \o s \o <<LexClose("_"), LexGt>>

\* the string part of Parser.getSubXml, applied to the expanded node
SubXmlOf(node) ==
  LET subxml == toxml(node)
  IN WrapPseudo(Strip(PySlice(subxml, FindGt(subxml) + 1, RFindClose(subxml))))

\* fault variant of getSubXml: the subtree is read without being consumed
getSubXmlPeek(evts, i) == <<SubXmlOf(expandNode(evts, i)[1]), i>>

\* Parser.getSubXml(evt_stream, node): <<the sub-XML text, the stream's next index>>
getSubXml(evts, i) ==
  LET x == expandNode(evts, i) IN <<SubXmlOf(x[1]), x[2]>>

(***************************************************************************)
(* The element vocabulary (plugins/base.py, plugins/wireshark.py).         *)
(***************************************************************************)
\* Parser.__parsables after base.register and wireshark.register: tag -> class
parsables ==
  [t \in {"message", "header", "trailer", "description", "brief", "detail",
          "values", "field", "weight", "ws:register", "ws:expose", "protocol",
          "version", "value", "position", "bits", "chunks"} |->
     CASE t = "message" -> "Message"
       [] t = "header" -> "Header"
       [] t = "trailer" -> "Trailer"
       [] t = "description" -> "Description"
       [] t = "brief" -> "Brief"
       [] t = "detail" -> "Detail"
       [] t = "values" -> "Values"
       [] t = "field" -> "Field"
       [] t = "weight" -> "Weight"
       [] t = "ws:register" -> "Register"
       [] t = "ws:expose" -> "Expose"
       [] t = "protocol" -> "Protocol"
       [] t = "version" -> "Version"
       [] t = "value" -> "Value"
       [] t = "position" -> "Position"
       [] t = "bits" -> "Bits"
       [] t = "chunks" -> "Chunks"]

\* the classes base.register and wireshark.register hand to registerParsable,
\* in their order
BaseParsables ==
  <<"Protocol", "Version", "Description", "Brief", "Detail", "Values", "Value",
    "Message", "Header", "Trailer", "Field", "Position", "Bits", "Chunks", "Weight">>

WiresharkParsables == <<"Register", "Expose">>

\* classes of a further vocabulary that derive from a class of base and keep
\* its tag()
DerivedClasses == {"DerivedMessage", "DerivedBrief"}

\* P.tag()
tagOf(P) ==
  CASE P = "DerivedMessage" -> "message"
    [] P = "DerivedBrief" -> "brief"
    [] OTHER -> CHOOSE t \in DOMAIN parsables : parsables[t] = P

\* dict(): no tag has a class
EmptyDict == [t \in {} |-> ""]

\* fault variant of SetItem: dict.setdefault(k, v), the first entry stays
SetDefault(reg, k, v) ==
  [t \in DOMAIN reg \cup {k} |-> IF t \in DOMAIN reg THEN reg[t] ELSE v]

\* "self.__parsables[P.tag()] = P" on the dictionary reg
SetItem(reg, k, v) ==
  [t \in DOMAIN reg \cup {k} |-> IF t = k THEN v ELSE reg[t]]

RECURSIVE RegisterEach(_, _)
\* "for parsable in [...]: xml_parser.registerParsable(parsable)"
RegisterEach(reg, Ps) ==
  IF Ps = <<>> THEN reg
  ELSE RegisterEach(SetItem(reg, tagOf(Head(Ps)), Head(Ps)), Tail(Ps))

\* fault variant of ParsablesOf: a nested invocation starts from an empty
\* dictionary
ParsablesOfOuter(f) == IF f = 1 THEN registry ELSE EmptyDict

\* self.__parsables as invocation f reads it: parse, parseString and every
\* parser.parseString of a Start run on the one Parser that main made
ParsablesOf(f) == registry

\* fault variant of push: the element goes under the stack
pushUnder(dom, data) == <<data>> \o dom

\* Parser.Stack.push(data): self.append(data)
push(dom, data) == Append(dom, data)

\* Parser.Stack.peek(): self[-1]
peek(dom) == Last(dom)

\* Header and Trailer derive from Message and override only tag()
IsMessage(cls) == cls \in {"Message", "Header", "Trailer"}

\* the classes whose Start re-parses the element's own subtree and returns True
SubParses(cls) == IsMessage(cls) \/ cls = "Field" \/ cls = "Protocol"

\* the attribute strings int() accepts, with their values; every other
\* string of the documents is a ValueError
Numerals ==
  ("0" :> 0) @@ ("1" :> 1) @@ ("2" :> 2) @@ ("3" :> 3) @@ ("7" :> 7)
  @@ ("8" :> 8) @@ ("16" :> 16) @@ ("32" :> 32) @@ ("-1" :> -1) @@ ("5" :> 5)

IsInt(s) == s \in DOMAIN Numerals

\* Constants.chunksize, Constants.bit0
Chunksizes == {"8", "16", "32"}

Bit0s == {"MSb", "LSb"}

\* Field.FTypes: the type names, and those of the two handlers with children
FTypes ==
  {"undecoded", "bool", "boolean", "enum", "enumeration", "weighted",
   "unsigned weighted", "float", "double", "int", "integer", "unsigned int",
   "unsigned integer"}

IsEnumeration(n) == n.cls = "Field" /\ Attr(n.attrs, "type") \in {"enum", "enumeration"}

IsWeighted(n) == n.cls = "Field" /\ Attr(n.attrs, "type") \in {"weighted", "unsigned weighted"}

\* Constants.endian
Endians == {"big", "little"}

\* the attributes Start of a class stores on the instance
Captured(cls) ==
  CASE cls = "Description" -> {"name", "abbreviation"}
    [] cls = "Values" -> {"name"}
    [] cls = "Field" -> {"type", "endian"}
    [] cls = "Weight" -> {"lsb", "offset"}
    [] cls = "Register" -> IF wireshark THEN {"table", "value"} ELSE {}
    [] cls = "Expose" -> IF wireshark THEN {"field"} ELSE {}
    [] cls = "Protocol" -> {"chunksize", "bit0", "endian"}
    [] cls = "Version" -> {"major", "minor", "micro", "extra"}
    [] cls = "Value" -> {"name", "int"}
    [] cls = "Position" -> {"index"}
    [] cls = "Bits" -> {"start", "end", "mask"}
    [] cls = "Chunks" -> {"length"}
    [] OTHER -> {}

\* cls(): the instance after __init__ (Parsable.__init__ and the class's own);
\* mask is Bits._mask, <<>> being None
NewParsable(cls, tag, el) ==
  [cls |-> cls, tag |-> tag, el |-> el, attrs |-> {}, children |-> <<>>,
   parent |-> 0, data |-> "", name |-> "", vals |-> <<>>, endian |-> "",
   abbr |-> "", keys |-> <<>>, had |-> {}, mask |-> <<>>]

\* fault variant of StartRaises: a required attribute has to be there, and
\* whatever it says will do
StartRaisesAbsent(cls, attrs) ==
  \E k \in (CASE cls = "Description" -> {"name", "abbreviation"}
              [] cls = "Value" -> {"name", "int"}
              [] cls = "Bits" -> {"start"}
              [] cls = "Chunks" -> {"length"}
              [] cls = "Position" -> {"index"}
              [] cls = "Weight" -> {"lsb"}
              [] cls = "Field" -> {"type"}
              [] cls = "Register" -> IF wireshark THEN {"table", "value"} ELSE {}
              [] cls = "Expose" -> IF wireshark THEN {"field"} ELSE {}
              [] OTHER -> {}) : ~HasAttr(attrs, k)

\* Start raises ParseError: Description.Start requires name and abbreviation,
\* Field.Start a type of FTypes and, if given, an endian of Constants.endian,
\* Weight.Start an lsb that is a float other than 0 and, if given, an offset
\* that is a float (the floats of the documents are the numerals),
\* Register.Start and Expose.Start, with --wireshark, their attributes,
\* Protocol.Start a chunksize, bit0 and endian of Constants if given,
\* Value.Start name and an int, Position.Start an int index, Chunks.Start an
\* int length, Bits.Start an int start and either an int end or an int mask
StartRaises(cls, attrs) ==
  \/ cls = "Register" /\ wireshark /\ ~(HasAttr(attrs, "table") /\ HasAttr(attrs, "value"))
  \/ cls = "Expose" /\ wireshark /\ ~HasAttr(attrs, "field")
  \/ cls = "Protocol" /\ HasAttr(attrs, "chunksize") /\ Attr(attrs, "chunksize") \notin Chunksizes
  \/ cls = "Protocol" /\ HasAttr(attrs, "bit0") /\ Attr(attrs, "bit0") \notin Bit0s
  \/ cls = "Protocol" /\ HasAttr(attrs, "endian") /\ Attr(attrs, "endian") \notin Endians
  \/ cls = "Value" /\ ~(HasAttr(attrs, "name") /\ IsInt(Attr(attrs, "int")))
  \/ cls = "Position" /\ ~IsInt(Attr(attrs, "index"))
  \/ cls = "Chunks" /\ ~IsInt(Attr(attrs, "length"))
  \/ cls = "Bits" /\ ~IsInt(Attr(attrs, "start"))
  \/ cls = "Bits" /\ HasAttr(attrs, "end") = HasAttr(attrs, "mask")
  \/ cls = "Bits" /\ HasAttr(attrs, "end") /\ ~IsInt(Attr(attrs, "end"))
  \/ cls = "Bits" /\ HasAttr(attrs, "mask") /\ ~IsInt(Attr(attrs, "mask"))
  \/ cls = "Description" /\ ~(HasAttr(attrs, "name") /\ HasAttr(attrs, "abbreviation"))
  \/ cls = "Field" /\ Attr(attrs, "type") \notin FTypes
  \/ cls = "Field" /\ HasAttr(attrs, "endian") /\ Attr(attrs, "endian") \notin Endians
  \/ cls = "Weight" /\ (IF IsInt(Attr(attrs, "lsb")) THEN Numerals[Attr(attrs, "lsb")] = 0 ELSE TRUE)
  \/ cls = "Weight" /\ HasAttr(attrs, "offset") /\ ~IsInt(Attr(attrs, "offset"))

\* the instance after the attribute handling of Start
StartAttrs(n, attrs) ==
  [n EXCEPT !.attrs = {p \in attrs : p[1] \in Captured(n.cls)},
            !.name = IF n.cls = "Values" THEN Attr(attrs, "name") ELSE @,
            !.endian = IF n.cls = "Field" THEN Attr(attrs, "endian")
                       ELSE IF n.cls # "Protocol" THEN ""
                       ELSE IF HasAttr(attrs, "endian") THEN Attr(attrs, "endian")
                       ELSE "big",
            !.abbr = "", !.keys = <<>>, !.had = {}, !.mask = <<>>,
            !.children = IF n.cls \in {"Register", "Expose"} THEN @ ELSE <<>>,
            !.vals = <<>>]

\* fault variant of CdataOp: every class keeps the chunk
CdataOpKept(n, data) == [n EXCEPT !.data = data]

\* Cdata(data): Brief and Detail keep the chunk, every other class ignores it
CdataOp(n, data) ==
  IF n.cls \in {"Brief", "Detail"} THEN [n EXCEPT !.data = data] ELSE n

\* fault variant of EndRaises: End checks nothing
EndRaisesNothing(n) == FALSE

\* End raises ParseError: Brief.End and Detail.End without any character
\* data, Position.End without a bits or chunks child
EndRaises(n) ==
  \/ n.cls \in {"Brief", "Detail"} /\ n.data = ""
  \/ n.cls = "Position" /\ n.had \cap {"bits", "chunks"} = {}

\* the next value of the module's _anon_counter after a read of Values.name
AnonNext(n, k) == IF n.cls = "Values" /\ n.name = "" THEN k + 1 ELSE k

\* Values.name: an unnamed instance takes 'anonymous_<k>' on its first read
ReadName(n, k) ==
  IF n.cls = "Values" /\ n.name = "" THEN [n EXCEPT !.name = "anonymous_" \o ToString(k)]
  ELSE n

\* Parsable.Child: self.children.append(child)
ParsableChild(p, c) == [p EXCEPT !.children = Append(@, c)]

\* the error Child raises, "" if none: ParseError of Message.Child on a second
\* values child of one name; EnumerationFTypeHandler.Child on a second values
\* child reads self.getTag(), which a handler does not have
ChildError(p, cn) ==
  IF IsMessage(p.cls) /\ cn.tag = "values" /\ cn.name \in Range(p.vals)
  THEN "ParseError"
  ELSE IF \/ IsMessage(p.cls) /\ cn.tag = "field" /\ cn.abbr \in Range(p.keys)
          \/ p.cls = "Protocol" /\ cn.tag = "message" /\ cn.abbr \in Range(p.keys)
          \/ p.cls = "Protocol" /\ cn.tag = "values" /\ cn.name \in Range(p.vals)
          \/ p.cls = "Protocol" /\ cn.tag = "version" /\ "version" \in p.had
          \/ p.cls = "Position" /\ cn.tag \in {"bits", "chunks"}
               /\ p.had \cap {"bits", "chunks"} # {}
  THEN "ParseError"
  ELSE IF IsEnumeration(p) /\ cn.tag = "values" /\ p.vals # <<>>
       THEN "AttributeError"
       ELSE ""

ChildRaises(p, cn) == ChildError(p, cn) # ""

\* the dictionaries and slots a Child call fills: the abbreviation read from
\* the description, the keys of Message._fields and Protocol.messages, the
\* tags of the children accepted so far
ChildSlots(p, cn) ==
  [p EXCEPT
     !.abbr = IF cn.tag = "description" /\ (IsMessage(p.cls) \/ p.cls \in {"Field", "Protocol"})
              THEN Attr(cn.attrs, "abbreviation") ELSE @,
     !.keys = IF \/ IsMessage(p.cls) /\ cn.tag = "field" /\ cn.abbr \notin Range(@)
                 \/ p.cls = "Protocol" /\ cn.tag = "message" /\ cn.abbr \notin Range(@)
              THEN Append(@, cn.abbr) ELSE @,
     !.had = @ \cup {cn.tag}]

\* the parent instance after Child(child); c is the child's id and cn the child
ChildOp(p, c, cn) ==
  IF p.cls \in {"Register", "Expose"} THEN p
  ELSE IF /\ cn.tag = "values"
          /\ \/ (IsMessage(p.cls) \/ p.cls = "Protocol") /\ cn.name \notin Range(p.vals)
             \/ IsEnumeration(p) /\ p.vals = <<>>
       THEN [ChildSlots(ParsableChild(p, c), cn) EXCEPT !.vals = Append(@, cn.name)]
       ELSE ChildSlots(ParsableChild(p, c), cn)

(***************************************************************************)
(* The validation pass: Validate(parent) of each class, on the instances h. *)
(* An outcome is the instances after the call, the Validate calls made and *)
(* the exception that left it ("" if it returned), with the node whose     *)
(* Validate raised it (0 while that is the call being described).          *)
(***************************************************************************)
Outcome(h, calls, e) == [h |-> h, calls |-> calls, err |-> e, at |-> 0]

ValidateCall(n, parent) ==
  [op |-> "Validate", n |-> n, c |-> parent, f |-> 0, ok |-> TRUE, by |-> "Validate"]

\* the children of n with the tag, in order
ChildrenTagged(h, n, tag) == SelectSeq(h[n].children, LAMBDA c : h[c].tag = tag)

\* a slot that every Child call overwrites: the last such child, 0 for None
Slot(h, n, tag) ==
  LET s == ChildrenTagged(h, n, tag) IN IF s = <<>> THEN 0 ELSE s[Len(s)]

\* Field._values, set once by EnumerationFTypeHandler.Child
FieldValues(h, n) ==
  LET s == ChildrenTagged(h, n, "values")
  IN IF IsEnumeration(h[n]) /\ s # <<>> THEN s[1] ELSE 0

\* Field._weight, set by WeightedFTypeHandler.Child
FieldWeight(h, n) == IF IsWeighted(h[n]) THEN Slot(h, n, "weight") ELSE 0

\* the names of the value children of a values element, and len() of it
ValueNames(h, v) ==
  {Attr(h[c].attrs, "name") : c \in Range(ChildrenTagged(h, v, "value"))}

\* the classes with an endian property, which are those with a chunksize
HasEndian(cls) == IsMessage(cls) \/ cls \in {"Field", "Protocol", "Position"}

\* n.endian (Protocol.endian, Message.endian, Field.endian, Position.endian):
\* "" is None, "!" an AttributeError
RECURSIVE endian(_, _)
endian(h, n) ==
  IF ~HasEndian(h[n].cls) THEN "!"
  ELSE IF h[n].endian # "" THEN h[n].endian
  ELSE IF h[n].parent # 0 THEN endian(h, h[n].parent)
  ELSE ""

\* n.chunksize: Protocol's own (8 by default), else the parent's; 0 is None
\* and -1 an AttributeError
RECURSIVE chunksize(_, _)
chunksize(h, n) ==
  IF ~HasEndian(h[n].cls) THEN -1
  ELSE IF h[n].cls = "Protocol"
       THEN IF HasAttr(h[n].attrs, "chunksize")
            THEN Numerals[Attr(h[n].attrs, "chunksize")] ELSE 8
  ELSE IF h[n].parent # 0 THEN chunksize(h, h[n].parent)
  ELSE 0

RECURSIVE bit0Default(_, _)
\* fault variant of bit0: a protocol numbers its bits from the least
\* significant one whatever its bit0 attribute says
bit0Default(h, n) ==
  IF ~HasEndian(h[n].cls) THEN "!"
  ELSE IF h[n].cls = "Protocol" THEN "LSb"
  ELSE IF h[n].parent # 0 THEN bit0Default(h, h[n].parent)
  ELSE ""

\* n.bit0: Protocol's own (LSb by default), else the parent's; "" is None and
\* "!" an AttributeError
RECURSIVE bit0(_, _)
bit0(h, n) ==
  IF ~HasEndian(h[n].cls) THEN "!"
  ELSE IF h[n].cls = "Protocol"
       THEN IF HasAttr(h[n].attrs, "bit0") THEN Attr(h[n].attrs, "bit0") ELSE "LSb"
  ELSE IF h[n].parent # 0 THEN bit0(h, h[n].parent)
  ELSE ""

\* A Python int that is not negative, which has no width, is the set of the
\* positions of its one bits, position 0 being the least significant.
\* int('1' * k, 2)
Ones(k) == 0..(k - 1)

\* operator.lshift(m, k) and operator.rshift(m, k) for k >= 0; a negative k
\* is a ValueError (ShiftRaises)
lshift(m, k) == {i + k : i \in m}

rshift(m, k) == {i - k : i \in {j \in m : j >= k}}

\* Bits.start and Bits._end after Start, which keeps the mask attribute of an
\* element without an end attribute in _end as well
BitsStart(self) == Numerals[Attr(self.attrs, "start")]

BitsEnd(self) ==
  Numerals[Attr(self.attrs, IF HasAttr(self.attrs, "end") THEN "end" ELSE "mask")]

\* Bits.__len__ of an element whose _end is set
BitsLen(self) == BitsEnd(self) - BitsStart(self) + 1

\* buildMask meets a negative shift count
ShiftRaises(self, size) ==
  BitsLen(self) >= 1 /\ (size - BitsLen(self) < 0 \/ size - (BitsStart(self) + BitsLen(self)) < 0)

\* Bits.buildMask(chunksize, bit0) of an element whose _end is set: <<the mask>>
buildMask(self, size, b0) ==
  LET mlen == BitsLen(self)
      out == size - mlen
      back == size - (BitsStart(self) + mlen)
  IN IF mlen < 1 THEN <<{}>>
     ELSE IF b0 = "LSb" THEN <<lshift(rshift(Ones(size), out), back)>>
     ELSE <<rshift(lshift(Ones(size), out), back)>>

\* Position.bitmask: <<the mask>>, of the chunks or of the bits child
bitmask(h, p) ==
  IF Slot(h, p, "chunks") # 0
  THEN <<Ones(4 * (chunksize(h, p) \div 4) * Numerals[Attr(h[Slot(h, p, "chunks")].attrs, "length")])>>
  ELSE buildMask(h[Slot(h, p, "bits")], chunksize(h, p), bit0(h, p))

\* a Position object: its index, its chunksize (0 is None), the length of its
\* chunks child (<<>> without one) and the length of its bits child
PositionOf(h, p) ==
  [index |-> Numerals[Attr(h[p].attrs, "index")],
   chunksize |-> chunksize(h, p),
   chunks |-> IF Slot(h, p, "chunks") = 0 THEN <<>>
              ELSE <<Numerals[Attr(h[Slot(h, p, "chunks")].attrs, "length")]>>,
   bits |-> IF Slot(h, p, "bits") = 0 THEN 0 ELSE BitsLen(h[Slot(h, p, "bits")])]

\* Position.bitlength
bitlength(self) ==
  IF self.chunks # <<>> THEN self.chunks[1] * self.chunksize ELSE self.bits

\* Position.chunklength
chunklength(self) ==
  IF self.chunks # <<>> THEN self.chunks[1]
  ELSE bitlength(self) \div self.chunksize
       + (IF bitlength(self) % self.chunksize # 0 THEN 1 ELSE 0)

\* Position.__or__(other) of two positions of one chunksize that is not None
PositionOr(self, other) ==
  LET index == Min(self.index, other.index)
      terminus == Max(self.index + (bitlength(self) \div self.chunksize),
                      other.index + (bitlength(other) \div other.chunksize))
  IN [index |-> index, chunksize |-> self.chunksize,
      chunks |-> <<Max(1, terminus - index)>>, bits |-> 0]

\* fault variant of hasFields: the container's own fields only
hasFieldsOwn(h, n) == IsMessage(h[n].cls) /\ h[n].keys # <<>>

RECURSIVE hasFields(_, _)
\* Message.hasFields() and Protocol.hasFields(): the header's, else the
\* trailer's, else, for a message, header or trailer, len(self._fields) > 0
hasFields(h, n) ==
  LET header == Slot(h, n, "header")
      trailer == Slot(h, n, "trailer")
      rv == IF header # 0 THEN hasFields(h, header) ELSE FALSE
      rw == IF ~rv /\ trailer # 0 THEN hasFields(h, trailer) ELSE rv
  IN IF ~rw /\ h[n].cls # "Protocol" /\ h[n].keys # <<>> THEN TRUE ELSE rw

\* Protocol.hasField(abbreviation): a field of a message, else of the header,
\* else of the trailer
hasField(h, p, abbreviation) ==
  \E m \in Range(ChildrenTagged(h, p, "message"))
           \cup ({Slot(h, p, "header"), Slot(h, p, "trailer")} \ {0}) :
    \E f \in Range(ChildrenTagged(h, m, "field")) : h[f].abbr = abbreviation

\* the ancestor search of Values.Validate from current upwards: "yes", "no",
\* or the exception that is not the AttributeError the loop passes over
RECURSIVE Defined(_, _, _)
Defined(h, current, name) ==
  IF current = 0 THEN "no"
  ELSE IF IsMessage(h[current].cls) \/ h[current].cls = "Protocol"
       THEN IF \E v \in Range(ChildrenTagged(h, current, "values")) :
                 h[v].name = name /\ ValueNames(h, v) # {}
            THEN "yes"
            ELSE Defined(h, h[current].parent, name)
  ELSE IF h[current].cls = "Field"
       THEN IF FieldValues(h, current) = 0 THEN "TypeError"
            ELSE IF name \in ValueNames(h, FieldValues(h, current)) THEN "TypeError"
            ELSE Defined(h, h[current].parent, name)
  ELSE Defined(h, h[current].parent, name)

\* outcome s of what followed outcome r: the calls of both
Both(r, s) == [Outcome(s.h, r.calls \o s.calls, s.err) EXCEPT !.at = s.at]

RECURSIVE Validate(_, _, _)
RECURSIVE ValidateChildren(_, _, _)
\* Parsable.Validate from the i-th child on: child.Validate(self) in order
ValidateChildren(h, n, i) ==
  IF i > Len(h[n].children) THEN Outcome(h, <<>>, "")
  ELSE LET r == Validate(h, h[n].children[i], n)
       IN IF r.err # "" THEN r ELSE Both(r, ValidateChildren(r.h, n, i + 1))

\* Parsable.Validate(parent): self.parent = parent, then the children
ParsableValidate(h, n, parent) ==
  ValidateChildren([h EXCEPT ![n].parent = parent], n, 1)

\* fault variant of InheritEndian: the default instead of the parent's value
InheritEndianDefault(h, n, parent) ==
  IF h[n].endian # "" THEN Outcome(h, <<>>, "")
  ELSE IF parent = 0 THEN Outcome(h, <<>>, "ValidationError")
  ELSE Outcome([h EXCEPT ![n].endian = "big"], <<>>, "")

\* "if self._endian is None": taken from the parent, ValidationError without one
InheritEndian(h, n, parent) ==
  IF h[n].endian # "" THEN Outcome(h, <<>>, "")
  ELSE IF parent = 0 THEN Outcome(h, <<>>, "ValidationError")
  ELSE IF endian(h, parent) = "!" THEN Outcome(h, <<>>, "AttributeError")
  ELSE Outcome([h EXCEPT ![n].endian = endian(h, parent)], <<>>, "")

\* "if self.description is not None: self.description.Validate(self)"
ValidateDescription(h, n) ==
  IF Slot(h, n, "description") = 0 THEN Outcome(h, <<>>, "ValidationError")
  ELSE Validate(h, Slot(h, n, "description"), n)

\* Field.ftype_handler.Validate(parent)
HandlerValidate(h, n, parent) ==
  IF IsEnumeration(h[n])
  THEN IF FieldValues(h, n) = 0 THEN Outcome(h, <<>>, "AttributeError")
       ELSE IF ValueNames(h, FieldValues(h, n)) = {}
            THEN Validate(h, FieldValues(h, n), parent)
            ELSE Outcome(h, <<>>, "")
  ELSE IF IsWeighted(h[n])
  THEN IF FieldWeight(h, n) = 0 THEN Outcome(h, <<>>, "AttributeError")
       ELSE Validate(h, FieldWeight(h, n), parent)
  ELSE Outcome(h, <<>>, "")

\* Field.Validate(parent)
FieldValidate(h, n, parent) ==
  LET r1 == InheritEndian(h, n, parent) IN
  IF r1.err # "" THEN r1 ELSE
  LET r2 == ValidateDescription(r1.h, n) IN
  IF r2.err # "" THEN r2 ELSE
  LET r3 == Both(r2, ParsableValidate(r2.h, n, parent)) IN
  IF r3.err # "" THEN r3 ELSE Both(r3, HandlerValidate(r3.h, n, parent))

\* fault variant of MessageValidate: an abbreviation of a field is compared
\* with those of the fields of every other parent too
MessageValidateUnique(h, n, parent) ==
  LET r1 == InheritEndian(h, n, parent) IN
  IF r1.err # "" THEN r1 ELSE
  LET r2 == ParsableValidate(r1.h, n, parent) IN
  IF r2.err # "" THEN r2 ELSE
  LET r3 == Both(r2, ValidateDescription(r2.h, n)) IN
  IF r3.err # "" THEN r3
  ELSE Outcome(r3.h, r3.calls,
               IF \E f \in Range(ChildrenTagged(h, n, "field")) :
                    \E g \in DOMAIN h :
                      /\ h[g].cls = "Field"
                      /\ g \notin Range(h[n].children)
                      /\ h[g].abbr = h[f].abbr
               THEN "ValidationError" ELSE "")

\* Message.Validate(parent); the abbreviation checks compare distinct keys of
\* _fields, which are the abbreviations themselves, and _groups stays empty
MessageValidate(h, n, parent) ==
  LET r1 == InheritEndian(h, n, parent) IN
  IF r1.err # "" THEN r1 ELSE
  LET r2 == ParsableValidate(r1.h, n, parent) IN
  IF r2.err # "" THEN r2 ELSE Both(r2, ValidateDescription(r2.h, n))

\* Values.Validate(parent)
ValuesValidate(h, n, parent) ==
  LET found == Defined(h, IF parent = 0 THEN 0 ELSE h[parent].parent, h[n].name)
  IN IF h[n].name # "" /\ ValueNames(h, n) = {} /\ found # "yes"
     THEN Outcome(h, <<>>, IF found = "no" THEN "ValidationError" ELSE found)
     ELSE ParsableValidate(h, n, parent)

\* Expose.Validate(parent): None has no getTag, and only a protocol that has
\* the field will do; the module raises ValidationError without importing
\* it, which is a NameError
ExposeValidate(h, n, parent) ==
  LET r == ParsableValidate(h, n, parent)
  IN IF r.err # "" THEN r
     ELSE Outcome(r.h, r.calls,
                  IF parent = 0 THEN "AttributeError"
                  ELSE IF h[parent].cls # "Protocol" THEN "NameError"
                  ELSE IF hasField(h, parent, Attr(h[n].attrs, "field")) THEN ""
                  ELSE "NameError")

\* Protocol.Validate(parent): the version is the last thing looked at before
\* the abbreviation check over the distinct keys of messages, and a protocol
\* without one asks for Version.Create, which Version (create) does not have
ProtocolValidate(h, n, parent) ==
  LET r1 == ParsableValidate(h, n, parent) IN
  IF r1.err # "" THEN r1 ELSE
  LET r2 == Both(r1, ValidateDescription(r1.h, n)) IN
  IF r2.err # "" THEN r2
  ELSE Outcome(r2.h, r2.calls,
               IF Slot(r2.h, n, "version") = 0 THEN "AttributeError" ELSE "")

\* Bits.Validate(parent): the end (or the mask, which Start keeps in _end)
\* against parent.chunksize, then _mask, which no Start has set, from
\* buildMask, and the children
BitsValidate(h, n, parent) ==
  LET end == BitsEnd(h[n])
      start == BitsStart(h[n])
      size == IF parent = 0 THEN -1 ELSE chunksize(h, parent)
  IN IF size = -1 THEN Outcome(h, <<>>, "AttributeError")
     ELSE IF size = 0 THEN Outcome(h, <<>>, "TypeError")
     ELSE IF end >= size \/ end < start THEN Outcome(h, <<>>, "ValidationError")
     ELSE IF h[n].mask # <<>> THEN ParsableValidate(h, n, parent)
     ELSE IF ShiftRaises(h[n], size) THEN Outcome(h, <<>>, "ValueError")
     ELSE ParsableValidate([h EXCEPT ![n].mask = buildMask(h[n], size, bit0(h, parent))],
                           n, parent)

\* n.Validate(parent)
Validate(h, n, parent) ==
  LET cls == h[n].cls
      r == CASE IsMessage(cls) -> MessageValidate(h, n, parent)
             [] cls = "Field" -> FieldValidate(h, n, parent)
             [] cls = "Values" -> ValuesValidate(h, n, parent)
             [] cls = "Expose" -> ExposeValidate(h, n, parent)
             [] cls = "Protocol" -> ProtocolValidate(h, n, parent)
             [] cls = "Bits" -> BitsValidate(h, n, parent)
             [] cls = "Description" ->
                  IF Slot(h, n, "brief") = 0 THEN Outcome(h, <<>>, "ValidationError")
                  ELSE ParsableValidate(h, n, parent)
             [] cls \in {"Brief", "Detail"} ->
                  IF h[n].data = "" THEN Outcome(h, <<>>, "ValidationError")
                  ELSE ParsableValidate(h, n, parent)
             [] OTHER -> ParsableValidate(h, n, parent)
  IN [Outcome(r.h, <<ValidateCall(n, parent)>> \o r.calls, r.err)
        EXCEPT !.at = IF r.err = "" THEN 0 ELSE IF r.at # 0 THEN r.at ELSE n]

(***************************************************************************)
(* Input documents: every tree of at most MaxNodes nodes over the kinds    *)
(* below, written with explicit closing tags; the nodes are numbered in    *)
(* document order and an element's number is its identity.  An element of  *)
(* the plugin declares its namespace prefix itself (xmlns:ws), which no    *)
(* Start reads and the lexemes leave out.                                  *)
(***************************************************************************)
NodeKinds ==
  << [tag |-> "message", attrs |-> {}],
     [tag |-> "description", attrs |-> {<<"name", "n">>, <<"abbreviation", "a">>}],
     [tag |-> "description", attrs |-> {}],
     [tag |-> "brief", attrs |-> {}],
     [tag |-> "values", attrs |-> {<<"name", "E">>}],
     [tag |-> "ws:register", attrs |-> {<<"table", "t">>, <<"value", "v">>}],
     [tag |-> "bogus", attrs |-> {}],
     [tag |-> "#text", attrs |-> {<<"data", "x">>}],
     [tag |-> "#text", attrs |-> {<<"data", " ">>}] >>

IsTextKind(k) == NodeKinds[k].tag = "#text"

RECURSIVE AncOrSelf(_, _)
AncOrSelf(par, i) == IF i = 0 THEN {} ELSE {i} \cup AncOrSelf(par, par[i])

\* par is the parent vector of a tree of n nodes numbered in document order
IsShape(n, par) ==
  /\ par[1] = 0
  /\ \A i \in 2..n : par[i] \in 1..(i - 1)
  /\ \A i \in 2..n : par[i] \in AncOrSelf(par, i - 1)

\* the root is an element and text has no children
IsLabelling(n, par, kind) ==
  /\ ~IsTextKind(kind[1])
  /\ \A i \in 2..n : ~IsTextKind(kind[par[i]])

RECURSIVE Written(_, _, _, _)
RECURSIVE WrittenFrom(_, _, _, _, _)
\* the text of node i, kind[i] being its tag and attributes
Written(n, par, kind, i) ==
  LET k == kind[i] IN
  IF k.tag = "#text" THEN <<LexChars(Attr(k.attrs, "data"))>>
  ELSE <<LexOpen(k.tag, k.attrs, i), LexGt>>
       \o WrittenFrom(n, par, kind, i, i + 1)
       \o <<LexClose(k.tag), LexGt>>

\* the text of the children j, j+1, ... of node i
WrittenFrom(n, par, kind, i, j) ==
  IF j > n THEN <<>>
  ELSE (IF par[j] = i THEN Written(n, par, kind, j) ELSE <<>>)
       \o WrittenFrom(n, par, kind, i, j + 1)

\* a document as a tree: an element with its attributes and children, and text
El(tag, attrs, kids) == [tag |-> tag, attrs |-> attrs, kids |-> kids]

Txt(data) == [tag |-> "#text", attrs |-> {<<"data", data>>}, kids |-> <<>>]

\* <?target?> and <!--data-->
Pi(target) == [tag |-> "?", attrs |-> {<<"data", target>>}, kids |-> <<>>]

Comment(data) == [tag |-> "!", attrs |-> {<<"data", data>>}, kids |-> <<>>]

RECURSIVE WriteTree(_, _)
RECURSIVE WriteTrees(_, _)
\* the text of the tree t, whose nodes are numbered in document order from id
\* on, and the first number after them
WriteTree(t, id) ==
  IF t.tag = "#text"
  THEN [text |-> <<LexChars(Attr(t.attrs, "data"))>>, next |-> id + 1]
  ELSE IF t.tag \in {"?", "!"}
  THEN [text |-> <<Lex(t.tag, Attr(t.attrs, "data"), {}, 0)>>, next |-> id + 1]
  ELSE LET inner == WriteTrees(t.kids, id + 1)
       IN [text |-> <<LexOpen(t.tag, t.attrs, id), LexGt>> \o inner.text
                    \o <<LexClose(t.tag), LexGt>>,
           next |-> inner.next]

WriteTrees(ts, id) ==
  IF ts = <<>> THEN [text |-> <<>>, next |-> id]
  ELSE LET first == WriteTree(Head(ts), id)
           rest == WriteTrees(Tail(ts), first.next)
       IN [text |-> first.text \o rest.text, next |-> rest.next]

\* <description name="n" abbreviation=...><brief>x</brief></description>
Describe(abbreviation) ==
  El("description", {<<"name", "n">>, <<"abbreviation", abbreviation>>},
     <<El("brief", {}, <<Txt("x")>>)>>)

\* <version major="1"/>
VersionOne == El("version", {<<"major", "1">>}, <<>>)

\* a definition <values name="E"><value name="v" int="1"/></values> and a
\* reference <values name="E"></values> to it
ValuesDefinition ==
  El("values", {<<"name", "E">>}, <<El("value", {<<"name", "v">>, <<"int", "1">>}, <<>>)>>)

ValuesReference == El("values", {<<"name", "E">>}, <<>>)

\* a described field of the type, with further attributes and children
FieldOf(type, attrs, abbreviation, kids) ==
  El("field", {<<"type", type>>} \cup attrs, <<Describe(abbreviation)>> \o kids)

\* a described message, header or trailer
MessageOf(tag, abbreviation, kids) == El(tag, {}, <<Describe(abbreviation)>> \o kids)

\* a described protocol with a version
ProtocolOf(attrs, kids) == El("protocol", attrs, <<Describe("p"), VersionOne>> \o kids)

\* <position index="0"><bits start="0" end=.../></position>
PositionBits(end) ==
  El("position", {<<"index", "0">>},
     <<El("bits", {<<"start", "0">>, <<"end", end>>}, <<>>)>>)

Big == {<<"endian", "big">>}

\* whole protocols: one that states its endian or not, with a header and a
\* message whose fields share an abbreviation; messages around an enumeration
\* field that refers to a definition of the protocol, of its own message, of
\* nobody; a reference of a message; bits inside and outside the chunk
ProtocolDocuments ==
  {ProtocolOf(e, <<MessageOf("header", "h", <<FieldOf("int", {}, "f", <<>>)>>),
                   MessageOf("message", "m", <<FieldOf("int", {}, "f", <<>>),
                                                FieldOf("int", Big, "g", <<>>)>>)>>)
     : e \in {{}, {<<"endian", "little">>}}}
  \cup
  {ProtocolOf({}, <<ValuesDefinition,
                    MessageOf("message", "m", <<FieldOf("enum", {}, "f", <<ValuesReference>>)>>)>>),
   ProtocolOf({}, <<MessageOf("message", "m", <<ValuesDefinition,
                                                 FieldOf("enum", {}, "f", <<ValuesReference>>)>>)>>),
   ProtocolOf({}, <<MessageOf("message", "m", <<FieldOf("enum", {}, "f", <<ValuesReference>>)>>)>>),
   ProtocolOf({}, <<ValuesDefinition, MessageOf("message", "m", <<ValuesReference>>)>>),
   ProtocolOf({<<"chunksize", "16">>},
              <<MessageOf("message", "m", <<FieldOf("int", {}, "f", <<PositionBits("7")>>)>>),
                El("ws:expose", {<<"field", "f">>}, <<>>)>>),
   ProtocolOf({}, <<El("ws:expose", {<<"field", "z">>}, <<>>),
                    MessageOf("message", "m", <<FieldOf("int", {}, "f", <<PositionBits("8")>>)>>)>>)}

\* a protocol of one message of one field, which lies at the position
FieldAt(attrs, position) ==
  ProtocolOf(attrs, <<MessageOf("message", "m", <<FieldOf("int", {}, "f", <<position>>)>>)>>)

\* <position index=...><bits .../></position>
BitsAt(index, attrs) == El("position", {<<"index", index>>}, <<El("bits", attrs, <<>>)>>)

\* protocols around a bits element: bits 2 to 5 of a chunk with either bit
\* numbered 0, a mask, a start below 0 with an end inside the chunk and with
\* the last bit of the chunk as its end
BitsDocuments ==
  {FieldAt({}, BitsAt("0", {<<"start", "2">>, <<"end", "5">>})),
   FieldAt({<<"bit0", "MSb">>}, BitsAt("0", {<<"start", "2">>, <<"end", "5">>})),
   FieldAt({}, BitsAt("0", {<<"start", "0">>, <<"mask", "1">>})),
   FieldAt({}, BitsAt("0", {<<"start", "-1">>, <<"end", "3">>})),
   FieldAt({}, BitsAt("0", {<<"start", "-1">>, <<"end", "7">>}))}

\* <position index=...><chunks length=.../></position>
ChunksAt(index, length) ==
  El("position", {<<"index", index>>}, <<El("chunks", {<<"length", length>>}, <<>>)>>)

\* a protocol of one message of two fields at the positions
FieldsAt(first, second) ==
  ProtocolOf({}, <<MessageOf("message", "m", <<FieldOf("int", {}, "f", <<first>>),
                                               FieldOf("int", {}, "g", <<second>>)>>)>>)

\* protocols around two positions: a chunk and four bits two chunks on, two
\* chunk ranges that overlap, two halves of one chunk
PositionDocuments ==
  {FieldsAt(ChunksAt("0", "1"), BitsAt("2", {<<"start", "0">>, <<"end", "3">>})),
   FieldsAt(ChunksAt("1", "1"), ChunksAt("0", "3")),
   FieldsAt(BitsAt("0", {<<"start", "0">>, <<"end", "3">>}),
            BitsAt("0", {<<"start", "5">>, <<"end", "7">>}))}

\* documents, as the sequences of their top-level nodes, around the markup
\* that is neither element nor text: a processing instruction before the
\* root, inside an element and inside an element that is sub-parsed, and
\* comments in the same places
EventDocuments ==
  {<<Pi("p"), El("brief", {}, <<Txt("x")>>)>>,
   <<El("brief", {}, <<Txt("x"), Pi("p")>>)>>,
   <<El("message", {}, <<Describe("m"), Pi("p")>>)>>,
   <<Comment("c"), El("brief", {}, <<Txt("x"), Comment("c")>>)>>,
   <<El("message", {}, <<Comment("c"), Describe("m")>>)>>}

\* documents with a second child for a slot, or with a child missing: two
\* fields or messages of one abbreviation, two descriptions, two briefs, two
\* position specifiers, two versions, two values of an enumeration; a
\* protocol without a version, an enumeration without values, a weighted
\* field without a weight, bits without a chunksize, an expose in a field
SlotDocuments ==
  {MessageOf("message", "m", <<FieldOf("int", {}, "f", <<>>), FieldOf("int", {}, "f", <<>>)>>),
   El("message", {}, <<El("field", {<<"type", "int">>}, <<>>),
                       El("field", {<<"type", "int">>}, <<>>)>>),
   ProtocolOf({}, <<MessageOf("message", "m", <<>>), MessageOf("message", "m", <<>>)>>),
   FieldOf("int", Big, "a", <<Describe("b")>>),
   El("field", {<<"type", "int">>} \cup Big,
      <<El("description", {<<"name", "n">>, <<"abbreviation", "a">>},
           <<El("brief", {}, <<Txt("x")>>), El("brief", {}, <<Txt("x")>>)>>)>>),
   El("position", {<<"index", "0">>},
      <<El("bits", {<<"start", "0">>, <<"end", "1">>}, <<>>),
        El("chunks", {<<"length", "1">>}, <<>>)>>),
   El("position", {<<"index", "0">>},
      <<El("chunks", {<<"length", "1">>}, <<>>), El("chunks", {<<"length", "1">>}, <<>>)>>),
   El("protocol", {}, <<VersionOne, VersionOne>>),
   El("field", {<<"type", "enum">>} \cup Big, <<ValuesDefinition, ValuesDefinition>>),
   El("protocol", {}, <<Describe("p")>>),
   FieldOf("enum", Big, "a", <<>>),
   FieldOf("weighted", Big, "a", <<>>),
   FieldOf("int", Big, "a", <<PositionBits("1")>>),
   FieldOf("int", Big, "a", <<El("ws:expose", {<<"field", "a">>}, <<>>)>>)}

\* <values><value name="v" int="1"/></values>, a definition without a name
AnonymousValues ==
  El("values", {}, <<El("value", {<<"name", "v">>, <<"int", "1">>}, <<>>)>>)

\* documents around values elements without a name: one with no value
\* children either, one with a value, one in a message next to a definition
\* that is named as the counter would name it, two in one message of a
\* protocol, one as the values of an enumeration
ValuesDocuments ==
  {El("values", {}, <<>>),
   AnonymousValues,
   El("message", {},
      <<El("values", {<<"name", "anonymous_0">>},
           <<El("value", {<<"name", "v">>, <<"int", "1">>}, <<>>)>>),
        AnonymousValues>>),
   ProtocolOf({}, <<MessageOf("message", "m", <<AnonymousValues, AnonymousValues>>)>>),
   FieldOf("enum", Big, "a", <<AnonymousValues>>)}

\* a description whose brief and detail hold the chunks of character data
DescribeText(brief, detail) ==
  El("description", {<<"name", "n">>, <<"abbreviation", "a">>},
     <<El("brief", {}, brief), El("detail", {}, detail)>>)

\* documents around text: a brief and a detail whose character data arrives
\* in one chunk or in two, a detail without any, a described field, which
\* reads its description in a nested invocation, and a message with text of
\* its own and in its description
TextDocuments ==
  {DescribeText(<<Txt("x"), Txt("y")>>, <<Txt("x")>>),
   DescribeText(<<Txt("x")>>, <<Txt("x"), Txt("y")>>),
   DescribeText(<<Txt("x")>>, <<>>),
   El("field", {<<"type", "int">>} \cup Big, <<DescribeText(<<Txt("x"), Txt("y")>>, <<Txt("y")>>)>>),
   El("message", {},
      <<Txt("x"),
        El("description", {<<"name", "n">>, <<"abbreviation", "a">>},
           <<Txt("y"), El("brief", {}, <<Txt("x")>>)>>)>>)}

\* the attributes an element of the tag may be written with: a good value, a
\* value of the wrong type, a zero, a value outside the constants
AttributeChoices(tag) ==
  CASE tag = "description" -> {<<"name", "n">>, <<"abbreviation", "a">>}
    [] tag = "value" -> {<<"name", "v">>, <<"int", "1">>, <<"int", "x">>}
    [] tag = "bits" -> {<<"start", "0">>, <<"start", "x">>, <<"end", "1">>, <<"mask", "1">>}
    [] tag = "chunks" -> {<<"length", "1">>, <<"length", "x">>}
    [] tag = "position" -> {<<"index", "0">>, <<"index", "x">>}
    [] tag = "weight" -> {<<"lsb", "1">>, <<"lsb", "x">>, <<"lsb", "0">>}
    [] tag = "field" -> {<<"type", "int">>, <<"type", "x">>, <<"endian", "big">>, <<"endian", "x">>}
    [] tag = "ws:register" -> {<<"table", "t">>, <<"value", "v">>}
    [] tag = "ws:expose" -> {<<"field", "a">>}
    [] tag = "protocol" -> {<<"chunksize", "16">>, <<"chunksize", "7">>, <<"bit0", "MSb">>,
                            <<"bit0", "x">>, <<"endian", "little">>, <<"endian", "x">>}

\* the attribute sets that give an attribute at most one value
IsAttributes(a) == \A p \in a : \A q \in a : p[1] = q[1] => p = q

\* documents of one element, with every choice of its attributes
StartDocuments ==
  UNION {{El(tag, a, <<>>) : a \in {b \in SUBSET AttributeChoices(tag) : IsAttributes(b)}} :
           tag \in {"description", "value", "bits", "chunks", "position", "weight",
                    "field", "ws:register", "ws:expose", "protocol"}}

\* the tags of the wireshark plugin, which read args_ns.wireshark
HasPluginTag(s) == \E i \in DOMAIN s : s[i].t = "<" /\ s[i].tag \in {"ws:register", "ws:expose"}

\* documents of fields, which validate only with a described field: an
\* integer field; a weighted field with its weight; an unsigned weighted one
\* whose weight comes before the description
FieldDocuments ==
  LET description == [tag |-> "description",
                      attrs |-> {<<"name", "n">>, <<"abbreviation", "a">>}]
      brief == [tag |-> "brief", attrs |-> {}]
      text == [tag |-> "#text", attrs |-> {<<"data", "x">>}]
      weight == [tag |-> "weight", attrs |-> {<<"lsb", "1">>}]
      field(type) == [tag |-> "field", attrs |-> {<<"type", type>>, <<"endian", "big">>}]
  IN { [par |-> <<0, 1, 2, 3>>,
        kind |-> <<field("int"), description, brief, text>>],
       [par |-> <<0, 1, 2, 3, 1>>,
        kind |-> <<field("weighted"), description, brief, text, weight>>],
       [par |-> <<0, 1, 1, 3, 4>>,
        kind |-> <<field("unsigned weighted"), weight, description, brief, text>>] }

(***************************************************************************)
(* The structure of a document and the history of a parse.                 *)
(***************************************************************************)
RECURSIVE ParentPairs(_, _, _)
\* the pairs <<element, parent element>> of the text s from lexeme i on, open
\* being the elements open at i, innermost last; 0 is no element
ParentPairs(s, i, open) ==
  IF i > Len(s) THEN {}
  ELSE IF s[i].t = "<"
       THEN {<<s[i].id, IF open = <<>> THEN 0 ELSE Last(open)>>}
            \cup ParentPairs(s, i + 2, IF s[i + 1].t = "/>" THEN open ELSE Append(open, s[i].id))
       ELSE IF s[i].t = "</" THEN ParentPairs(s, i + 2, Front(open))
            ELSE ParentPairs(s, i + 1, open)

\* the pseudo-node '_' is no element of the document
DocParents == {p \in ParentPairs(doc, 1, <<>>) : p[1] # 0}

DocElements == {p[1] : p \in DocParents}

DocParent(e) == (CHOOSE p \in DocParents : p[1] = e)[2]

RECURSIVE Ascending(_)
Ascending(S) ==
  IF S = {} THEN <<>>
  ELSE LET m == CHOOSE x \in S : \A y \in S : x <= y IN <<m>> \o Ascending(S \ {m})

\* the direct child elements of element e, in document order
DocChildren(e) == Ascending({p[1] : p \in {q \in DocParents : q[2] = e}})

RECURSIVE DocAncestors(_)
DocAncestors(e) ==
  IF e = 0 \/ e \notin DocElements THEN {}
  ELSE LET p == DocParent(e) IN IF p = 0 THEN {} ELSE {p} \cup DocAncestors(p)

Nodes == DOMAIN heap

Calls(op) == {i \in DOMAIN log : log[i].op = op}

\* the element of node n has closed: its End has returned
Closed(n) == \E i \in Calls("End") : log[i].n = n /\ log[i].ok

\* the elements of the children of node n, in the order of n.children
ChildElements(n) == [i \in DOMAIN heap[n].children |-> heap[heap[n].children[i]].el]

RECURSIVE CloseIndex(_, _, _)
\* the index of the "</" that closes the element opened before lexeme i
CloseIndex(s, i, depth) ==
  IF s[i].t = "<" THEN CloseIndex(s, i + 2, IF s[i + 1].t = "/>" THEN depth ELSE depth + 1)
  ELSE IF s[i].t = "</" THEN (IF depth = 0 THEN i ELSE CloseIndex(s, i + 2, depth - 1))
       ELSE CloseIndex(s, i + 1, depth)

\* the markup between the opening and the closing tag of element e of the text s
InnerText(s, e) ==
  LET i == CHOOSE j \in DOMAIN s : s[j].t = "<" /\ s[j].id = e
  IN IF s[i + 1].t = "/>" THEN <<>> ELSE SubSeq(s, i + 2, CloseIndex(s, i + 2, 0) - 1)

RECURSIVE Tree(_, _)
\* the object graph below node n: types, attributes and order
Tree(h, n) ==
  [tag |-> h[n].tag, el |-> h[n].el, attrs |-> h[n].attrs,
   children |-> [i \in DOMAIN h[n].children |-> Tree(h, h[n].children[i])]]

RECURSIVE Graph(_, _)
\* the object graph below node n with what the instances hold: types,
\* attributes, names, text, endian and order
Graph(h, n) ==
  [tag |-> h[n].tag, el |-> h[n].el, attrs |-> h[n].attrs, name |-> h[n].name,
   data |-> h[n].data, endian |-> h[n].endian,
   children |-> [i \in DOMAIN h[n].children |-> Graph(h, h[n].children[i])]]

(***************************************************************************)
(* The parse engine (Parser._parse_evt_stream).                            *)
(***************************************************************************)
Frame(evts, owner) == [evts |-> evts, pos |-> 1, dom |-> <<>>, out |-> 0, owner |-> owner]

\* a call made by the engine, invocation f, on node n (with child c)
Call(op, n, c, f, ok) ==
  [op |-> op, n |-> n, c |-> c, f |-> f, ok |-> ok, by |-> "engine"]

\* a call made by the Start of node n, which invocation f runs
CallByStart(op, n, c, f, ok) == [Call(op, n, c, f, ok) EXCEPT !.by = "Start"]

\* the invocation that is executing, and its next event
Depth == Len(frames)

Cur == frames[Depth]

\* fault variant of HasEvent: the generator runs on without being asked
HasEventEager == status = "running" /\ Cur.pos <= Len(Cur.evts)

HasEvent == status = "running" /\ Cur.out = 0 /\ Cur.pos <= Len(Cur.evts)

Evt == Cur.evts[Cur.pos]

\* fault variant of Raise: an exception of a nested invocation is swallowed
RaiseOuterOnly(kind, calls) ==
  /\ status' = IF Len(frames) > 1 THEN status ELSE "error"
  /\ err' = kind
  /\ UNCHANGED raised
  /\ log' = log \o calls

\* an exception leaves every invocation and reaches the caller of parse
Raise(kind, calls) ==
  /\ status' = "error"
  /\ err' = kind
  /\ UNCHANGED raised
  /\ log' = log \o calls

\* main has made its Parser: nothing is registered and nothing is parsed yet
Init ==
  /\ registry = EmptyDict
  /\ registered = <<>>
  /\ doc = <<>>
  /\ run = 1
  /\ expect = <<>>
  /\ frames = <<>>
  /\ heap = <<>>
  /\ anon = 0
  /\ log = <<>>
  /\ results = <<>>
  /\ validated = <<>>
  /\ pushed = <<>>
  /\ wireshark = TRUE
  /\ raised = 0
  /\ status = "new"
  /\ err = ""

\* Parser.registerParsable(P), P being any class of the two vocabularies
registerParsable ==
  /\ status = "new"
  /\ Len(registered) < MaxRegistrations
  /\ \E P \in {"Message", "Header", "Brief"} \cup DerivedClasses :
       /\ registry' = SetItem(registry, tagOf(P), P)
       /\ registered' = Append(registered, P)
  /\ UNCHANGED <<doc, run, expect, frames, heap, anon, log, results, validated,
                 pushed, wireshark, raised, status, err>>

\* Dispatcher.register_all: the register of every module of the plugins
\* folder, base.py and wireshark.py; their tags are disjoint, so that the
\* order in which os.listdir names them makes no difference to the dictionary
register_all ==
  /\ status = "new"
  /\ LET Ps == BaseParsables \o WiresharkParsables
     IN /\ registry' = RegisterEach(registry, Ps)
        /\ registered' = registered \o Ps
  /\ status' = "idle"
  /\ UNCHANGED <<doc, run, expect, frames, heap, anon, log, results, validated,
                 pushed, wireshark, raised, err>>

\* Parser.parse(file_or_stream), the input being any document of the bounds
\* or one of the documents written out above; the command line had -ws or,
\* which only the elements of the plugin can tell, had not
parse ==
  /\ status = "idle"
  /\ \/ \E d \in FieldDocuments : doc' = Written(Len(d.par), d.par, d.kind, 1)
     \/ \E t \in ProtocolDocuments \cup SlotDocuments \cup StartDocuments
                 \cup ValuesDocuments \cup TextDocuments \cup BitsDocuments
                 \cup PositionDocuments :
          doc' = WriteTree(t, 1).text
     \/ \E ts \in EventDocuments : doc' = WriteTrees(ts, 1).text
     \/ \E n \in 1..MaxNodes :
          \E par \in [1..n -> 0..(n - 1)] :
            \E kind \in [1..n -> DOMAIN NodeKinds] :
              /\ IsShape(n, par)
              /\ IsLabelling(n, par, kind)
              /\ doc' = Written(n, par, [i \in 1..n |-> NodeKinds[kind[i]]], 1)
  /\ wireshark' \in (IF HasPluginTag(doc') THEN BOOLEAN ELSE {TRUE})
  /\ frames' = <<Frame(DOMEventStream(doc'), 0)>>
  /\ status' = "running"
  /\ UNCHANGED <<registry, registered, run, expect, heap, anon, log, results,
               validated, pushed, err, raised>>

\* fault variant of HasParent: every closed element is yielded
NeverHasParent(rest) == FALSE

\* fault variant of AttachCalls: parent.Child(element) before element.End()
AttachCallsChildFirst(element, p, d, ok) ==
  <<Call("Child", p, element, d, ok), Call("End", element, 0, d, TRUE)>>

\* "if len(dom)": the popped element has a parent on the stack
HasParent(rest) == rest # <<>>

\* the calls of a close that attaches: element.End(), then parent.Child(element)
AttachCalls(element, p, d, ok) ==
  <<Call("End", element, 0, d, TRUE), Call("Child", p, element, d, ok)>>

\* Parser.py 131-136 (and 120-125): pop the stack, End, then Child on the new
\* top or, the stack being empty, yield; fs are the invocations, the last
\* one holding the closing element on top of its stack
CloseElement(fs) ==
  LET d == Len(fs)
      element == Last(fs[d].dom)
      rest == Front(fs[d].dom)
      ended == ReadName(heap[element], anon)
      h == [heap EXCEPT ![element] = ended]
  IN IF EndRaises(heap[element])
     THEN /\ Raise("ParseError", <<Call("End", element, 0, d, FALSE)>>)
          /\ frames' = [fs EXCEPT ![d].dom = rest]
          /\ UNCHANGED <<doc, wireshark, registry, registered, run, expect, heap, anon, results, validated, pushed>>
     ELSE /\ anon' = AnonNext(heap[element], anon)
          /\ UNCHANGED <<doc, wireshark, registry, registered, run, expect, results, validated, pushed>>
          /\ IF HasParent(rest)
             THEN LET p == peek(rest) IN
                  /\ heap' = [h EXCEPT ![p] = ChildOp(h[p], element, ended)]
                  /\ frames' = [fs EXCEPT ![d].dom = rest]
                  /\ IF ChildRaises(h[p], ended)
                     THEN Raise(ChildError(h[p], ended), AttachCalls(element, p, d, FALSE))
                     ELSE /\ log' = log \o AttachCalls(element, p, d, TRUE)
                          /\ UNCHANGED <<status, err, raised>>
             ELSE /\ heap' = h
                  /\ frames' = [fs EXCEPT ![d].dom = rest, ![d].out = element]
                  /\ log' = log \o <<Call("End", element, 0, d, TRUE),
                                     Call("Yield", element, 0, d, TRUE)>>
                  /\ UNCHANGED <<status, err, raised>>

IsElementEvent(kind) == HasEvent /\ Evt.evt = kind /\ Evt.name # "_"

\* fault variant of UnknownElement: the element is skipped
UnknownElementSkipped ==
  /\ IsElementEvent("START_ELEMENT")
  /\ Evt.name \notin DOMAIN ParsablesOf(Depth)
  /\ frames' = [frames EXCEPT ![Depth].pos = @ + 1]
  /\ UNCHANGED <<doc, wireshark, registry, registered, run, expect, heap, anon, log, results, validated, pushed, status, err, raised>>

\* fault variant of UnknownElement: fatal in the outer invocation only
UnknownElementSkippedWhenNested ==
  /\ IsElementEvent("START_ELEMENT")
  /\ Evt.name \notin DOMAIN ParsablesOf(Depth)
  /\ IF Depth > 1
     THEN /\ frames' = [frames EXCEPT ![Depth].pos = @ + 1]
          /\ UNCHANGED <<doc, wireshark, registry, registered, run, expect, heap, anon, log, results, validated, pushed, status, err, raised>>
     ELSE /\ Raise("ParseError", <<>>)
          /\ UNCHANGED <<doc, wireshark, registry, registered, run, expect, frames, heap, anon, results, validated, pushed>>

\* START_ELEMENT of a tag without a registered Parsable: KeyError, ParseError
UnknownElement ==
  /\ IsElementEvent("START_ELEMENT")
  /\ Evt.name \notin DOMAIN ParsablesOf(Depth)
  /\ Raise("ParseError", <<>>)
  /\ UNCHANGED <<doc, wireshark, registry, registered, run, expect, frames, heap, anon, results, validated, pushed>>

\* START_ELEMENT of an element whose Start returns False
StartElement ==
  /\ IsElementEvent("START_ELEMENT")
  /\ Evt.name \in DOMAIN ParsablesOf(Depth)
  /\ LET cls == ParsablesOf(Depth)[Evt.name]
         id == Len(heap) + 1
         new == NewParsable(cls, Evt.name, Evt.id)
     IN /\ ~SubParses(cls)
        /\ ~StartRaises(cls, Evt.attrs)
        /\ heap' = Append(heap, StartAttrs(new, Evt.attrs))
        /\ frames' = [frames EXCEPT ![Depth].pos = @ + 1, ![Depth].dom = push(@, id)]
        /\ log' = Append(log, Call("Start", id, 0, Depth, TRUE))
  /\ UNCHANGED <<doc, wireshark, registry, registered, run, expect, anon, results, validated, pushed, status, err, raised>>

\* START_ELEMENT of an element whose Start raises
StartElementFails ==
  /\ IsElementEvent("START_ELEMENT")
  /\ Evt.name \in DOMAIN ParsablesOf(Depth)
  /\ LET cls == ParsablesOf(Depth)[Evt.name]
         id == Len(heap) + 1
         new == NewParsable(cls, Evt.name, Evt.id)
     IN /\ StartRaises(cls, Evt.attrs)
        /\ heap' = Append(heap, new)
        /\ frames' = [frames EXCEPT ![Depth].pos = @ + 1, ![Depth].dom = push(@, id)]
        /\ Raise("ParseError", <<Call("Start", id, 0, Depth, FALSE)>>)
  /\ UNCHANGED <<doc, wireshark, registry, registered, run, expect, anon, results, validated, pushed>>

\* START_ELEMENT of an element whose Start re-parses its subtree: Start runs
\* up to the first step of parser.parseString(parser.getSubXml(evt_stream, node))
StartSubParse ==
  /\ IsElementEvent("START_ELEMENT")
  /\ Evt.name \in DOMAIN ParsablesOf(Depth)
  /\ LET cls == ParsablesOf(Depth)[Evt.name]
         id == Len(heap) + 1
         new == NewParsable(cls, Evt.name, Evt.id)
         sub == getSubXml(Cur.evts, Cur.pos + 1)
     IN /\ SubParses(cls)
        /\ ~StartRaises(cls, Evt.attrs)
        /\ heap' = Append(heap, StartAttrs(new, Evt.attrs))
        /\ frames' = Append([frames EXCEPT ![Depth].pos = sub[2],
                                           ![Depth].dom = push(@, id)],
                            Frame(DOMEventStream(sub[1]), id))
        /\ log' = Append(log, Call("Start", id, 0, Depth, TRUE))
  /\ UNCHANGED <<doc, wireshark, registry, registered, run, expect, anon, results, validated, pushed, status, err, raised>>

\* the nested invocation is exhausted: Start returns True and the engine
\* closes the element as if its END_ELEMENT had been seen (Parser.py 117-125)
SubParseReturn ==
  /\ status = "running"
  /\ Depth > 1
  /\ Cur.out = 0
  /\ Cur.pos > Len(Cur.evts)
  /\ CloseElement(Front(frames))

\* the element's Start consumes a result of its nested invocation:
\* "for element in parser.parseString(...): self.Child(element)"
SubParseChild ==
  /\ status = "running"
  /\ Depth > 1
  /\ Cur.out # 0
  /\ LET p == Cur.owner
         c == Cur.out
     IN /\ heap' = [heap EXCEPT ![p] = ChildOp(heap[p], c, heap[c])]
        /\ frames' = [frames EXCEPT ![Depth].out = 0]
        /\ IF ChildRaises(heap[p], heap[c])
           THEN Raise(ChildError(heap[p], heap[c]),
                      <<CallByStart("Child", p, c, Depth - 1, FALSE)>>)
           ELSE /\ log' = Append(log, CallByStart("Child", p, c, Depth - 1, TRUE))
                /\ UNCHANGED <<status, err, raised>>
  /\ UNCHANGED <<doc, wireshark, registry, registered, run, expect, anon, results, validated, pushed>>

\* END_ELEMENT
EndElement ==
  /\ IsElementEvent("END_ELEMENT")
  /\ IF Cur.dom = <<>>
     THEN \* dom.pop() of an empty stack
          /\ Raise("IndexError", <<>>)
          /\ frames' = [frames EXCEPT ![Depth].pos = @ + 1]
          /\ UNCHANGED <<doc, wireshark, registry, registered, run, expect, heap, anon, results, validated, pushed>>
     ELSE CloseElement([frames EXCEPT ![Depth].pos = @ + 1])

\* CHARACTERS: Cdata on the top of the stack, nothing when the stack is empty
Characters ==
  /\ HasEvent
  /\ Evt.evt = "CHARACTERS"
  /\ frames' = [frames EXCEPT ![Depth].pos = @ + 1]
  /\ IF Cur.dom # <<>>
     THEN /\ heap' = [heap EXCEPT ![peek(Cur.dom)] = CdataOp(@, Evt.name)]
          /\ log' = Append(log, Call("Cdata", peek(Cur.dom), 0, Depth, TRUE))
     ELSE UNCHANGED <<heap, log>>
  /\ UNCHANGED <<doc, wireshark, registry, registered, run, expect, anon, results, validated, pushed, status, err, raised>>

\* START_DOCUMENT, END_DOCUMENT: logged only
DocumentEvent ==
  /\ HasEvent
  /\ Evt.evt \in {"START_DOCUMENT", "END_DOCUMENT"}
  /\ frames' = [frames EXCEPT ![Depth].pos = @ + 1]
  /\ UNCHANGED <<doc, wireshark, registry, registered, run, expect, heap, anon, log, results, validated, pushed, status, err, raised>>

\* an event of any other kind: the last branch reads node.tagName, which the
\* node of a processing instruction, not being an element, does not have
OtherEvent ==
  /\ HasEvent
  /\ Evt.evt \notin {"START_ELEMENT", "END_ELEMENT", "CHARACTERS",
                     "START_DOCUMENT", "END_DOCUMENT"}
  /\ frames' = [frames EXCEPT ![Depth].pos = @ + 1]
  /\ Raise("AttributeError", <<>>)
  /\ UNCHANGED <<doc, wireshark, registry, registered, run, expect, heap, anon, results, validated, pushed>>

\* the START_ELEMENT and END_ELEMENT of the pseudo-node '_': logged only
PseudoNode ==
  /\ HasEvent
  /\ Evt.evt \in {"START_ELEMENT", "END_ELEMENT"}
  /\ Evt.name = "_"
  /\ frames' = [frames EXCEPT ![Depth].pos = @ + 1]
  /\ UNCHANGED <<doc, wireshark, registry, registered, run, expect, heap, anon, log, results, validated, pushed, status, err, raised>>

\* the caller of parse takes the yielded element: main's loop validates it
\* before it asks for the next one, the direct parse of run 2 only collects
Pull ==
  /\ status = "running"
  /\ Depth = 1
  /\ Cur.out # 0
  /\ results' = Append(results, Cur.out)
  /\ frames' = [frames EXCEPT ![1].out = 0]
  /\ status' = IF run \in {1, 3} THEN "validating" ELSE "running"
  /\ UNCHANGED <<doc, wireshark, registry, registered, run, expect, heap, anon, log, validated, pushed, err, raised>>

\* main's log line reads element.description.name: an AttributeError unless
\* the element is of a class with a description and has one
Described(h, n) ==
  (IsMessage(h[n].cls) \/ h[n].cls \in {"Field", "Protocol"})
  /\ Slot(h, n, "description") # 0

\* main: the body of the loop for the element just pulled, up to
\* element.Validate(None)
ValidatePulled ==
  /\ status = "validating"
  /\ LET r == IF Described(heap, Last(results))
              THEN Validate(heap, Last(results), 0)
              ELSE Outcome(heap, <<>>, "AttributeError")
     IN /\ heap' = r.h
        /\ log' = log \o r.calls
        /\ err' = r.err
        /\ raised' = r.at
        /\ status' = IF r.err = "" THEN "pushing" ELSE "invalid"
        /\ validated' = IF r.err = "" THEN Append(validated, Last(results))
                        ELSE validated
  /\ UNCHANGED <<doc, wireshark, registry, registered, run, expect, frames, anon, results, pushed>>

\* fault variant of Push: the element is handed over while it is validated
PushUnvalidated ==
  /\ status \in {"validating", "pushing"}
  /\ pushed' = Append(pushed, Last(results))
  /\ status' = "running"
  /\ UNCHANGED <<doc, wireshark, registry, registered, run, expect, frames, heap, anon, log, results, validated, err, raised>>

\* main: dispatcher.push(element), the last statement of the loop's body
Push ==
  /\ status = "pushing"
  /\ pushed' = Append(pushed, Last(results))
  /\ status' = "running"
  /\ UNCHANGED <<doc, wireshark, registry, registered, run, expect, frames, heap, anon, log, results, validated, err, raised>>

\* the outer event stream is exhausted: the result sequence ends
Finish ==
  /\ status = "running"
  /\ Depth = 1
  /\ Cur.out = 0
  /\ Cur.pos > Len(Cur.evts)
  /\ status' = "done"
  /\ UNCHANGED <<doc, wireshark, registry, registered, run, expect, frames, heap, anon, log, results, validated, pushed, err, raised>>

\* the markup of a sub-parsed element of the document parsed directly, as the
\* content of a synthetic root: Parser.parseString('<_>...</_>') by the caller
parseSubtree ==
  /\ status \in {"done", "invalid"}
  /\ run = 1
  /\ \E s \in Nodes :
       /\ SubParses(heap[s].cls)
       /\ Closed(s)
       /\ doc' = WrapPseudo(InnerText(doc, heap[s].el))
       /\ expect' = Tree(heap, s).children
  /\ run' = 2
  /\ frames' = <<Frame(DOMEventStream(doc'), 0)>>
  /\ heap' = <<>>
  /\ log' = <<>>
  /\ results' = <<>>
  /\ validated' = <<>>
  /\ pushed' = <<>>
  /\ raised' = 0
  /\ status' = "running"
  /\ err' = ""
  /\ UNCHANGED <<anon, wireshark, registry, registered>>

\* the document that was parsed and validated is given to the same Parser
\* again: xml_parser.parse and main's loop a second time
parseAgain ==
  /\ status = "done"
  /\ run = 1
  /\ results # <<>>
  /\ expect' = [i \in DOMAIN results |-> Graph(heap, results[i])]
  /\ run' = 3
  /\ frames' = <<Frame(DOMEventStream(doc), 0)>>
  /\ heap' = <<>>
  /\ log' = <<>>
  /\ results' = <<>>
  /\ validated' = <<>>
  /\ pushed' = <<>>
  /\ raised' = 0
  /\ status' = "running"
  /\ err' = ""
  /\ UNCHANGED <<registry, registered, doc, anon, wireshark>>

Next ==
  \/ register_all
  \/ parse
  \/ parseSubtree
  \/ parseAgain
  \/ UnknownElement
  \/ StartElement
  \/ StartElementFails
  \/ StartSubParse
  \/ SubParseReturn
  \/ SubParseChild
  \/ EndElement
  \/ Characters
  \/ DocumentEvent
  \/ OtherEvent
  \/ PseudoNode
  \/ Pull
  \/ ValidatePulled
  \/ Push
  \/ Finish

Spec == Init /\ [][Next]_vars

\* a parser that is given classes one by one, and nothing else
RegistryNext == registerParsable

RegistrySpec == Init /\ [][RegistryNext]_vars

\* C1: round-trip nesting: the children of every closed node (at any depth,
\* nested sub-parses included) are one node per direct child tag of its
\* element, in document order
RoundTripNesting ==
  \A n \in Nodes : Closed(n) => ChildElements(n) = DocChildren(heap[n].el)

\* the classes whose Child calls Parsable.Child
RoundTripNestingOfAppenders ==
  \A n \in Nodes :
    Closed(n) /\ heap[n].cls \notin {"Register", "Expose"}
      => ChildElements(n) = DocChildren(heap[n].el)

\* C3: sub-parse equivalence: the markup of a sub-parsed element, parsed
\* directly inside a synthetic root, parses without error into top-level
\* results identical in type, attributes and order to the children the
\* element obtained through getSubXml and the nested parseString
SubParseEquivalence ==
  run = 2 =>
    /\ status # "error"
    /\ status = "done" => [i \in DOMAIN results |-> Tree(heap, results[i])] = expect

\* a sub-parsed element with children and grandchildren has been compared
SubParseEquivalenceWitness ==
  /\ run = 2
  /\ status = "done"
  /\ \E i \in DOMAIN expect : expect[i].children # <<>>

\* the whole input has been turned into elements: the result sequence ended,
\* or the one top-level element of a document was yielded and pulled
Parsed == status = "done" \/ (run = 1 /\ results # <<>>)

\* the calls of the history that concern node n as the receiver
CallsOn(n, ops) == {i \in DOMAIN log : log[i].op \in ops /\ log[i].n = n}

\* the hand-overs of node n: Child(n) on a parent, or the yield of n
HandOvers(n) ==
  {i \in DOMAIN log : \/ log[i].op = "Child" /\ log[i].c = n
                      \/ log[i].op = "Yield" /\ log[i].n = n}

\* element e lies below element a in the document
Below(e, a) == a \in DocAncestors(e)

\* C2: once the Start of an element has sub-parsed its subtree, the invocation
\* that called it (and every one outside it) makes no Start, Cdata or End
\* call for a descendant and does not process the element's own END (its End
\* runs once); every element has one node and one Start call, and when the
\* parse is done every element of the document has its node
SubParsedNotReprocessed ==
  /\ \A i \in Calls("Start") :
       LET s == log[i].n IN
       SubParses(heap[s].cls) =>
         /\ \A j \in DOMAIN log :
              log[j].by = "engine" /\ log[j].f <= log[i].f
                => ~Below(heap[log[j].n].el, heap[s].el)
         /\ Cardinality(CallsOn(s, {"End"})) <= 1
  /\ \A n \in Nodes :
       /\ Cardinality(CallsOn(n, {"Start"})) = 1
       /\ \A m \in Nodes : heap[m].el = heap[n].el => m = n
  /\ Parsed => \A e \in DocElements : \E n \in Nodes : heap[n].el = e

\* a finished parse in which an element with text lay below a sub-parsed one
SubParsedNotReprocessedWitness ==
  /\ Parsed
  /\ \E s \in Nodes, n \in Nodes :
       /\ SubParses(heap[s].cls)
       /\ Below(heap[n].el, heap[s].el)
       /\ CallsOn(n, {"Cdata"}) # {}
       /\ CallsOn(s, {"End"}) # {}

\* C4: lifecycle ordering: for every node, Start is called once and before
\* anything else; its Cdata and Child calls come after its Start began and
\* before its End; End is called at most once, and once when the parse is
\* done; the node is handed to Child of its parent, or yielded, only after
\* its End returned
LifecycleOrdering ==
  \A n \in Nodes :
    LET starts == CallsOn(n, {"Start"})
        ends == CallsOn(n, {"End"})
    IN /\ Cardinality(starts) = 1
       /\ Cardinality(ends) <= 1
       /\ Parsed => Cardinality(ends) = 1
       /\ \A i \in starts :
            \A j \in (CallsOn(n, {"Cdata", "Child", "End"}) \cup HandOvers(n)) : i < j
       /\ \A j \in CallsOn(n, {"Cdata", "Child"}) : \A e \in ends : j < e
       /\ \A j \in HandOvers(n) : \E e \in ends : e < j /\ log[e].ok

\* a node that got text and a child before its End, and was then handed over
LifecycleOrderingWitness ==
  \E n \in Nodes :
    /\ CallsOn(n, {"Cdata"}) # {}
    /\ CallsOn(n, {"Child"}) # {}
    /\ HandOvers(n) # {}

\* the calls appended to the history by the step
NewCalls == SubSeq(log', Len(log) + 1, Len(log'))

\* the hand-overs of node n made by the engine itself
EngineHandOvers(n) == {i \in HandOvers(n) : log[i].by = "engine"}

\* the step closes an element: End is the first call it makes
ClosesElement == NewCalls # <<>> /\ NewCalls[1].op = "End"

\* one close: the invocation pops one node, calls End on it and then either
\* Child on the new top (stack non-empty, nothing yielded) or yields it
CloseStep ==
  LET d == NewCalls[1].f
      n == NewCalls[1].n
      stack == frames[d].dom
  IN /\ stack # <<>>
     /\ Last(stack) = n
     /\ frames'[d].dom = Front(stack)
     /\ NewCalls[1].ok =>
          /\ Len(NewCalls) = 2
          /\ IF Front(stack) # <<>>
             THEN /\ NewCalls[2].op = "Child"
                  /\ NewCalls[2].by = "engine"
                  /\ NewCalls[2].n = Last(Front(stack))
                  /\ NewCalls[2].c = n
                  /\ NewCalls[2].f = d
                  /\ frames'[d].out = 0
             ELSE /\ NewCalls[2] = Call("Yield", n, 0, d, TRUE)
                  /\ frames'[d].out = n

\* C5: on every element close (END event or the close after a sub-parsing
\* Start) the invocation pops exactly one node and then does exactly one of
\* two things: Child once on the new top of its stack and no yield, or, its
\* stack being empty, the yield of the popped node; the engine hands a node
\* over only at its close, never yields it while the stack is non-empty and
\* never both yields it and attaches it to a parent
CloseAttachesOrYields ==
  /\ [](\A n \in Nodes :
          /\ Cardinality(EngineHandOvers(n)) <= 1
          /\ \A i \in EngineHandOvers(n) :
               i > 1 /\ log[i - 1].op = "End" /\ log[i - 1].n = n)
  /\ [][ClosesElement => CloseStep]_vars

\* both kinds of close have happened: a node of a nested invocation was
\* yielded from an empty stack and a node was attached to the top of a stack
CloseAttachesOrYieldsWitness ==
  /\ \E i \in DOMAIN log : log[i].op = "Yield" /\ log[i].f > 1
  /\ \E i \in DOMAIN log : log[i].op = "Child" /\ log[i].by = "engine"

\* the next event of the running invocation is the START of an element
\* whose tag has no registered Parsable
AtUnregisteredStart ==
  /\ HasEvent
  /\ Evt.evt = "START_ELEMENT"
  /\ Evt.name \notin DOMAIN registry

\* the parse stopped at such a START event, no call of a Parsable having failed
UnknownElementRaised ==
  /\ status = "error"
  /\ Cur.pos <= Len(Cur.evts)
  /\ Evt.evt = "START_ELEMENT"
  /\ Evt.name \notin DOMAIN registry
  /\ Evt.name # "_"
  /\ log = <<>> \/ Last(log).ok

\* C6: an element whose tag has no registered builder is always fatal: for
\* every START event, at any depth and in any invocation, a tag that is not
\* in the registry aborts the parse with ParseError; none is ever skipped
UnregisteredAlwaysFatal ==
  [][AtUnregisteredStart => status' = "error" /\ err' = "ParseError"]_vars

\* C6, amended: the same for every tag but the pseudo-node '_', whose START
\* and END the engine passes over; the failing step builds no node for the
\* element and consumes nothing after it
UnregisteredFatalButPseudoNode ==
  [][(AtUnregisteredStart /\ Evt.name # "_")
       => /\ status' = "error"
          /\ err' = "ParseError"
          /\ UNCHANGED <<frames, heap, results, validated, pushed>>]_vars

\* the parse stopped at an unregistered START inside a nested invocation
UnregisteredFatalButPseudoNodeWitness == UnknownElementRaised /\ Depth > 1

\* C7: fail-fast on unknown tag: for a document whose registered outer
\* element holds an unregistered child, the unknown-element ParseError reaches
\* the caller of parse and the result sequence has yielded nothing when it is
\* raised, the outer element sub-parsing or not
FailFastOnUnknownTag ==
  /\ [](run = 1 /\ (AtUnregisteredStart \/ UnknownElementRaised)
          => /\ results = <<>>
             /\ frames[1].out = 0
             /\ \A i \in DOMAIN log : ~(log[i].op = "Yield" /\ log[i].f = 1))
  /\ [](UnknownElementRaised => err = "ParseError")
  /\ [][(AtUnregisteredStart /\ Evt.name # "_" /\ frames[1].dom # <<>>)
          => status' = "error" /\ UnknownElementRaised']_vars

\* the error was raised for a child of a sub-parsing outer element
FailFastOnUnknownTagWitness ==
  /\ UnknownElementRaised
  /\ Depth = 2
  /\ frames[1].dom # <<>>
  /\ SubParses(heap[frames[1].dom[1]].cls)

\* node n is open or being built: its End has not returned
Open(n) == \A i \in CallsOn(n, {"End"}) : ~log[i].ok

\* C8: a failure raised by Start, Child or End of any element, in any
\* invocation, aborts the entire parse: the error reaches the caller of
\* parse, no event after the failing one is processed, and no node that was
\* open or being built is ever yielded
FailureAbortsParse ==
  /\ [](\A i \in DOMAIN log :
          ~log[i].ok => i = Len(log) /\ status = "error" /\ err # "")
  /\ [](status = "error" =>
          \A n \in Nodes : Open(n) =>
            /\ \A k \in DOMAIN results : results[k] # n
            /\ \A k \in DOMAIN frames : frames[k].out # n
            /\ \A i \in DOMAIN log : ~(log[i].op = "Yield" /\ log[i].n = n))
  /\ [][status # "error"]_vars

\* a call failed inside a nested invocation while the outer element was open
FailureAbortsParseWitness ==
  /\ status = "error"
  /\ log # <<>>
  /\ ~Last(log).ok
  /\ Last(log).f > 1
  /\ frames[1].dom # <<>>
  /\ Open(frames[1].dom[1])

\* the elements whose START event invocation k has not consumed yet
Unconsumed(k) ==
  {frames[k].evts[j].id :
     j \in {i \in DOMAIN frames[k].evts :
              /\ i >= frames[k].pos
              /\ frames[k].evts[i].evt = "START_ELEMENT"
              /\ frames[k].evts[i].name # "_"}}

\* C9: laziness: while an element yielded by an invocation has not been taken
\* and the next result requested, the yield is the last thing that happened:
\* no call has been made for an element that follows in the invocation's
\* input, nor for any descendant of it
Laziness ==
  \A k \in DOMAIN frames :
    frames[k].out # 0 =>
      /\ log # <<>>
      /\ Last(log) = Call("Yield", frames[k].out, 0, k, TRUE)
      /\ \A e \in Unconsumed(k) :
           \A n \in Nodes : heap[n].el # e /\ ~Below(heap[n].el, e)

\* the first of two elements closing at depth zero is yielded, the second
\* still ahead
LazinessWitness ==
  \E k \in DOMAIN frames : frames[k].out # 0 /\ Unconsumed(k) # {}

\* the instances of the tree of n: n and whatever its children lead to
RECURSIVE TreeNodes(_, _)
TreeNodes(h, n) == {n} \cup UNION {TreeNodes(h, c) : c \in Range(h[n].children)}

\* C10: parent-link invariant: after Validate(None) on a top-level element
\* returned, the root's parent is None and every child of every node of the
\* tree has that node as its parent
ParentLinks ==
  \A k \in DOMAIN validated :
    /\ heap[validated[k]].parent = 0
    /\ \A n \in TreeNodes(heap, validated[k]) :
         \A c \in Range(heap[n].children) : heap[c].parent = n

\* C11: during one Validate(None) on a top-level element, every node of its
\* tree has Validate invoked exactly once
ValidatedOnce ==
  \A k \in DOMAIN validated :
    \A n \in TreeNodes(heap, validated[k]) :
      Cardinality(CallsOn(n, {"Validate"})) = 1

\* the node that holds n among its children, 0 for a top-level element
Container(n) ==
  IF \E p \in Nodes : n \in Range(heap[p].children)
  THEN CHOOSE p \in Nodes : n \in Range(heap[p].children)
  ELSE 0

\* the class of that node, "" for a top-level element
ContainerClass(n) == IF Container(n) = 0 THEN "" ELSE heap[Container(n)].cls

RECURSIVE Containers(_)
\* the ancestors of n in the tree that was built
Containers(n) == IF Container(n) = 0 THEN {} ELSE {Container(n)} \cup Containers(Container(n))

\* a values element with a name and no value children
IsReference(n) ==
  heap[n].cls = "Values" /\ HasAttr(heap[n].attrs, "name") /\ ValueNames(heap, n) = {}

\* node a holds a values element of the name that has value children
Exposes(a, name) ==
  \E v \in Range(ChildrenTagged(heap, a, "values")) :
    Attr(heap[v].attrs, "name") = name /\ ValueNames(heap, v) # {}

\* an ancestor other than the immediate container exposes a definition
HasDefinition(n) ==
  \E a \in Containers(n) \ {Container(n)} : Exposes(a, Attr(heap[n].attrs, "name"))

\* C12: named-reference resolution: Validate of a values element that has a
\* name and no value children succeeds if and only if some ancestor other
\* than its immediate container exposes a non-empty definition under that
\* name, and raises ValidationError when there is none
ReferenceResolution ==
  /\ \A k \in DOMAIN validated :
       \A n \in TreeNodes(heap, validated[k]) : IsReference(n) => HasDefinition(n)
  /\ status = "invalid" /\ raised # 0 /\ IsReference(raised)
       => err = "ValidationError" /\ ~HasDefinition(raised)

\* the endian a protocol was written with, big when it states none
StatedEndian(p) ==
  IF HasAttr(heap[p].attrs, "endian") THEN Attr(heap[p].attrs, "endian") ELSE "big"

\* C13: ancestor attribute inheritance: after Validate(None) on a protocol,
\* every message, header, trailer and field of it at any depth that has no
\* endian attribute of its own reports the protocol's endian (little if the
\* protocol says so, the default big if it says nothing), and a field with
\* an endian attribute reports its own
EndianInheritance ==
  \A k \in DOMAIN validated :
    heap[validated[k]].cls = "Protocol" =>
      \A n \in TreeNodes(heap, validated[k]) :
        /\ IsMessage(heap[n].cls) => endian(heap, n) = StatedEndian(validated[k])
        /\ heap[n].cls = "Field" =>
             endian(heap, n) = IF HasAttr(heap[n].attrs, "endian")
                               THEN Attr(heap[n].attrs, "endian")
                               ELSE StatedEndian(validated[k])

\* a validated little-endian protocol with a header, a message, a field that
\* inherits and a field that says big
EndianInheritanceWitness ==
  \E k \in DOMAIN validated :
    LET p == validated[k] IN
    /\ heap[p].cls = "Protocol"
    /\ Attr(heap[p].attrs, "endian") = "little"
    /\ \E m \in TreeNodes(heap, p) : heap[m].cls = "Header" /\ endian(heap, m) = "little"
    /\ \E f \in TreeNodes(heap, p) :
         /\ heap[f].cls = "Field"
         /\ ~HasAttr(heap[f].attrs, "endian")
         /\ ContainerClass(f) = "Message"
         /\ endian(heap, f) = "little"
    /\ \E f \in TreeNodes(heap, p) :
         /\ heap[f].cls = "Field"
         /\ Attr(heap[f].attrs, "endian") = "big"
         /\ endian(heap, f) = "big"

\* a validated protocol that states no endian, whose fields report big
EndianDefaultWitness ==
  \E k \in DOMAIN validated :
    LET p == validated[k] IN
    /\ heap[p].cls = "Protocol"
    /\ ~HasAttr(heap[p].attrs, "endian")
    /\ \E f \in TreeNodes(heap, p) :
         heap[f].cls = "Field" /\ ~HasAttr(heap[f].attrs, "endian") /\ endian(heap, f) = "big"

\* the children of p that are identified by their abbreviation: the fields of
\* a message, header or trailer, the messages of a protocol
Identified(p) ==
  IF IsMessage(heap[p].cls) THEN Range(ChildrenTagged(heap, p, "field"))
  ELSE IF heap[p].cls = "Protocol" THEN Range(ChildrenTagged(heap, p, "message"))
  ELSE {}

\* two of them share an abbreviation
DuplicateSiblings(p) ==
  \E a \in Identified(p) : \E b \in Identified(p) : a # b /\ heap[a].abbr = heap[b].abbr

\* C14: duplicate identifiers among siblings are a validation-time error: when
\* two fields of a message (or two messages of a protocol) share an
\* abbreviation, no call of the parse fails, and the tree never comes out of
\* Validate as valid
DuplicateAtValidation ==
  \A p \in Nodes :
    DuplicateSiblings(p) =>
      /\ status # "error"
      /\ \A i \in DOMAIN log : log[i].ok
      /\ \A k \in DOMAIN validated : p \notin TreeNodes(heap, validated[k])

\* C15: two fields that carry the same abbreviation but belong to different
\* parents cause no error in parse and none in Validate: a Child call that
\* fails over a field or a message has a sibling of the same abbreviation
\* under the same parent, and a message, header or trailer whose Validate
\* raises lacks its endian or its description
AbbreviationScope ==
  /\ \A i \in DOMAIN log :
       /\ log[i].op = "Child"
       /\ ~log[i].ok
       /\ log[i].c \in Identified(log[i].n)
       => \E b \in Identified(log[i].n) \ {log[i].c} : heap[b].abbr = heap[log[i].c].abbr
  /\ status = "invalid" /\ raised # 0 /\ IsMessage(heap[raised].cls)
       => /\ err = "ValidationError"
          /\ heap[raised].endian = "" \/ Slot(heap, raised, "description") = 0

\* a protocol came out of Validate with a field of a header and a field of a
\* message that carry the same abbreviation
AbbreviationScopeWitness ==
  \E k \in DOMAIN validated :
    \E f \in TreeNodes(heap, validated[k]) : \E g \in TreeNodes(heap, validated[k]) :
      /\ heap[f].cls = "Field" /\ heap[g].cls = "Field"
      /\ heap[f].abbr = heap[g].abbr
      /\ ContainerClass(f) = "Header"
      /\ ContainerClass(g) = "Message"

\* the single-valued child slots of node p, each as the tags that fill it
SingleSlots(p) ==
  IF IsMessage(heap[p].cls) THEN {{"description"}}
  ELSE IF heap[p].cls = "Protocol" THEN {{"description"}, {"version"}}
  ELSE IF heap[p].cls = "Field"
       THEN {{"description"}} \cup (IF IsEnumeration(heap[p]) THEN {{"values"}} ELSE {})
  ELSE IF heap[p].cls = "Description" THEN {{"brief"}, {"detail"}}
  ELSE IF heap[p].cls = "Position" THEN {{"bits", "chunks"}}
  ELSE {}

\* the children of p that were delivered for the slot
Delivered(p, slot) == SelectSeq(heap[p].children, LAMBDA c : heap[c].tag \in slot)

\* C16: a duplicate or contradictory child is rejected at the Child call that
\* delivers it: once a second child for a single-valued slot has been
\* delivered, that Child call is the last call of the parse and it failed
\* with ParseError
SecondChildRejected ==
  \A p \in Nodes : \A slot \in SingleSlots(p) :
    Len(Delivered(p, slot)) >= 2 =>
      /\ status = "error"
      /\ err = "ParseError"
      /\ Last(log).op = "Child" /\ Last(log).n = p /\ ~Last(log).ok

\* the attributes element e of the document was written with
DocAttrs(e) == doc[CHOOSE i \in DOMAIN doc : doc[i].t = "<" /\ doc[i].id = e].attrs

\* the attributes an element type declares as required
Required(tag) ==
  CASE tag = "description" -> {"name", "abbreviation"}
    [] tag = "value" -> {"name", "int"}
    [] tag = "bits" -> {"start"}
    [] tag = "chunks" -> {"length"}
    [] tag = "position" -> {"index"}
    [] tag = "weight" -> {"lsb"}
    [] tag = "field" -> {"type"}
    [] tag = "ws:register" -> {"table", "value"}
    [] tag = "ws:expose" -> {"field"}
    [] OTHER -> {}

\* the value parses as the type the attribute is expected to have
WellTyped(tag, k, v) ==
  IF <<tag, k>> \in {<<"value", "int">>, <<"bits", "start">>, <<"chunks", "length">>,
                     <<"position", "index">>, <<"weight", "lsb">>}
  THEN IsInt(v)
  ELSE IF <<tag, k>> = <<"field", "type">> THEN v \in FTypes
  ELSE TRUE

\* the attributes req are all there and well-typed
Satisfied(tag, attrs, req) ==
  \A k \in req : HasAttr(attrs, k) /\ WellTyped(tag, k, Attr(attrs, k))

Enforced(tag) ==
  IF tag \in {"ws:register", "ws:expose"} /\ ~wireshark THEN {} ELSE Required(tag)

\* what else Start wants of the attributes: an lsb other than 0 and an offset
\* that is a float, one of end and mask and that an integer, an endian, a
\* chunksize and a bit0 of the constants
Acceptable(tag, attrs) ==
  CASE tag = "weight" ->
         /\ Attr(attrs, "lsb") # "0"
         /\ HasAttr(attrs, "offset") => IsInt(Attr(attrs, "offset"))
    [] tag = "bits" ->
         /\ HasAttr(attrs, "end") # HasAttr(attrs, "mask")
         /\ IsInt(Attr(attrs, IF HasAttr(attrs, "end") THEN "end" ELSE "mask"))
    [] tag = "field" -> HasAttr(attrs, "endian") => Attr(attrs, "endian") \in Endians
    [] tag = "protocol" ->
         /\ HasAttr(attrs, "endian") => Attr(attrs, "endian") \in Endians
         /\ HasAttr(attrs, "chunksize") => Attr(attrs, "chunksize") \in Chunksizes
         /\ HasAttr(attrs, "bit0") => Attr(attrs, "bit0") \in Bit0s
    [] OTHER -> TRUE

TypedFailures ==
  /\ status = "error" => err = "ParseError"
  /\ status = "invalid" /\ raised # 0 => err = "ValidationError"

\* the part of C18 about parse alone, which fails as well
TypedParseFailures == status = "error" => err = "ParseError"

\* and the part about Validate alone
TypedValidateFailures == status = "invalid" /\ raised # 0 => err = "ValidationError"

\* C19: in the main driver loop an element is pushed to the dispatcher only
\* after its Validate(None) has returned without error, and once a parse or
\* validation error has occurred for a document no element of that document
\* is pushed afterwards
PushAfterValidate ==
  /\ [](\A i \in DOMAIN pushed :
          /\ i <= Len(validated)
          /\ pushed[i] = validated[i]
          /\ \E j \in CallsOn(pushed[i], {"Validate"}) : log[j].c = 0)
  /\ [](err # "" => status \in {"error", "invalid"})
  /\ [][(status \in {"error", "invalid"} /\ run' = run) => (pushed' = pushed)]_vars

\* an element was pushed, its Validate(None) having returned
PushAfterValidateWitness ==
  /\ pushed # <<>>
  /\ pushed = validated
  /\ status = "running"
  /\ err = ""

\* the endian node n was parsed with: the attribute of a field, the attribute
\* or the default of a protocol, none for every other node
ParsedEndian(n) ==
  IF heap[n].cls = "Field" THEN Attr(heap[n].attrs, "endian")
  ELSE IF heap[n].cls = "Protocol" THEN StatedEndian(n)
  ELSE ""

\* C20: when Validate(None) on a top-level element fails (with the
\* ValidationError it is meant to fail with), the caller is left with no
\* partially validated tree: no node of the tree carries a parent link or an
\* inherited attribute value assigned by the failed pass
NoPartialValidation ==
  status = "invalid" /\ raised # 0 /\ err = "ValidationError" =>
    \A n \in TreeNodes(heap, Last(results)) :
      heap[n].parent = 0 /\ heap[n].endian = ParsedEndian(n)

\* the part of C20 about parent links alone
NoPartialParentLinks ==
  status = "invalid" /\ raised # 0 /\ err = "ValidationError" =>
    \A n \in TreeNodes(heap, Last(results)) : heap[n].parent = 0

\* the part of C20 about inherited attribute values alone
NoPartialInheritance ==
  status = "invalid" /\ raised # 0 /\ err = "ValidationError" =>
    \A n \in TreeNodes(heap, Last(results)) : heap[n].endian = ParsedEndian(n)

\* the class of the last registerParsable call made under tag t
LastRegistered(t) ==
  registered[CHOOSE i \in DOMAIN registered :
               /\ tagOf(registered[i]) = t
               /\ \A j \in DOMAIN registered : j > i => tagOf(registered[j]) # t]

\* C21: registry last-wins: after any sequence of registerParsable calls the
\* registry holds the tags that were registered, each with exactly one class,
\* the one most recently registered under it, and a call under one tag leaves
\* the classes of all other tags unchanged
RegistryLastWins ==
  /\ [](/\ DOMAIN registry = {tagOf(registered[i]) : i \in DOMAIN registered}
        /\ \A t \in DOMAIN registry : registry[t] = LastRegistered(t))
  /\ [][registered' # registered =>
          \A t \in DOMAIN registry :
            t # tagOf(Last(registered'))
              => (t \in DOMAIN registry' /\ registry'[t] = registry[t])]_vars

\* a class was registered under a tag that had another class, next to a tag
\* registered once
RegistryLastWinsWitness ==
  \E i \in DOMAIN registered : \E j \in DOMAIN registered :
    /\ i < j
    /\ tagOf(registered[i]) = tagOf(registered[j])
    /\ registered[i] # registered[j]
    /\ registry[tagOf(registered[j])] = registered[j]
    /\ \E t \in DOMAIN registry : t # tagOf(registered[j])

\* the parse stopped with ParseError and no call of a Parsable had failed:
\* the lookup of the tag of the next event, a START, is what failed
LookupFailed ==
  /\ status = "error"
  /\ err = "ParseError"
  /\ log = <<>> \/ Last(log).ok
  /\ Cur.pos <= Len(Cur.evts)
  /\ Evt.evt = "START_ELEMENT"

\* C22: the registry is read-only during parsing: no step of parse,
\* parseString, getSubXml or of a nested invocation (nor of the loop around
\* them) adds, removes or replaces an entry, and a nested invocation resolves
\* tags against the registry of the outer one: the node built for an element,
\* in whatever invocation, is of the class the registry holds for its tag, and
\* a lookup fails only for a tag the registry does not hold
RegistryReadOnly ==
  /\ [][status # "new" => registry' = registry /\ registered' = registered]_vars
  /\ [](\A i \in Calls("Start") :
          /\ heap[log[i].n].tag \in DOMAIN registry
          /\ heap[log[i].n].cls = registry[heap[log[i].n].tag])
  /\ [](LookupFailed => Evt.name \notin DOMAIN registry)

\* a parse is done in which an invocation nested in a nested one resolved a tag
RegistryReadOnlyWitness ==
  /\ status = "done"
  /\ registry = parsables
  /\ \E i \in Calls("Start") : log[i].f > 2 /\ heap[log[i].n].cls = registry[heap[log[i].n].tag]

\* C23: apart from the registry no mutable state is shared between parse
\* invocations: the document parsed and validated a second time with the same
\* registry yields object graphs equal to the first ones in every node type,
\* attribute, name and order
RepeatableParse ==
  run = 3 /\ status = "done" =>
    [i \in DOMAIN results |-> Graph(heap, results[i])] = expect

RECURSIVE OpenTags(_, _, _)
\* the elements whose START is among the first k events of the stream and
\* whose END is not, outermost first; pseudo says whether the pseudo-node '_'
\* (element 0) is counted as one of them
OpenTags(evts, k, pseudo) ==
  IF k = 0 THEN <<>>
  ELSE LET open == OpenTags(evts, k - 1, pseudo)
           e == evts[k]
       IN IF e.evt \in {"START_ELEMENT", "END_ELEMENT"} /\ (pseudo \/ e.name # "_")
          THEN IF e.evt = "START_ELEMENT" THEN Append(open, e.id) ELSE Front(open)
          ELSE open

\* the elements of the nodes on the stack of invocation k, bottom first
StackElements(k) == [i \in DOMAIN frames[k].dom |-> heap[frames[k].dom[i]].el]

\* the open tags of invocation k: those of the events it has consumed and,
\* while the Start of an element is sub-parsing in invocation k + 1, that
\* element, whose END expandNode has taken from the stream
CurrentlyOpen(k, pseudo) ==
  OpenTags(frames[k].evts, frames[k].pos - 1, pseudo)
    \o (IF k < Depth THEN <<heap[frames[k + 1].owner].el>> ELSE <<>>)

\* an invocation yields from an empty stack and ends with an empty stack
EmptyAtYieldAndEnd ==
  \A k \in DOMAIN frames :
    /\ frames[k].out # 0 => frames[k].dom = <<>>
    /\ frames[k].pos > Len(frames[k].evts) /\ status # "error" => frames[k].dom = <<>>

\* a step of the executing invocation leaves the stacks of the outer ones alone
OuterStacksUnchanged ==
  \A k \in DOMAIN frames :
    k < Depth /\ Len(frames') >= Depth => frames'[k].dom = frames[k].dom

\* C24 as stated: the stack of an invocation holds exactly one in-progress
\* node per currently-open tag of that invocation's input, in nesting order
StackPerOpenTag ==
  \A k \in DOMAIN frames : StackElements(k) = CurrentlyOpen(k, TRUE)

\* C24: stack invariant: at every point of a parse invocation its stack holds
\* exactly one in-progress node per currently-open tag of its input other
\* than the pseudo-node '_' around the input of a nested invocation, in
\* nesting order (innermost on top); a nested invocation leaves the stack of
\* the outer one unchanged; the stack is empty whenever an element is yielded
\* and when the invocation ends
StackInvariant ==
  /\ [](\A k \in DOMAIN frames : StackElements(k) = CurrentlyOpen(k, FALSE))
  /\ []EmptyAtYieldAndEnd
  /\ [][OuterStacksUnchanged]_vars

\* a nested invocation has two nodes on its stack while the stack of the outer
\* one holds the element that is sub-parsing
StackInvariantWitness ==
  /\ status = "running"
  /\ Depth = 2
  /\ Len(frames[2].dom) = 2
  /\ frames[1].dom = <<frames[2].owner>>

RECURSIVE DirectChunks(_, _, _)
\* the chunks of character data of the markup s from lexeme i on that lie
\* outside every element of s, concatenated in order
DirectChunks(s, i, depth) ==
  IF i > Len(s) THEN ""
  ELSE IF s[i].t = "<"
       THEN DirectChunks(s, i + 2, IF s[i + 1].t = "/>" THEN depth ELSE depth + 1)
  ELSE IF s[i].t = "</" THEN DirectChunks(s, i + 2, depth - 1)
  ELSE (IF depth = 0 /\ s[i].t = "c" THEN s[i].tag ELSE "") \o DirectChunks(s, i + 1, depth)

\* the whole character data of element e of the document
CharacterData(e) == DirectChunks(InnerText(doc, e), 1, 0)

\* C25: text capture is complete: after End of a brief or detail element
\* succeeded, its stored text equals the whole character data of the element,
\* the in-order concatenation of every chunk passed to Cdata between its START
\* and its END
TextCaptureComplete ==
  \A n \in Nodes :
    heap[n].cls \in {"Brief", "Detail"} /\ Closed(n)
      => heap[n].data = CharacterData(heap[n].el)

\* C26: required text is enforced at End: End of a brief or detail element
\* fails when no Cdata call came before it, with ParseError, and the parse
\* aborts there; with at least one Cdata call before it End succeeds
RequiredText ==
  \A i \in Calls("End") :
    LET n == log[i].n IN
    heap[n].cls \in {"Brief", "Detail"} =>
      /\ log[i].ok <=> \E j \in CallsOn(n, {"Cdata"}) : j < i
      /\ ~log[i].ok => i = Len(log) /\ status = "error" /\ err = "ParseError"

\* End of a brief that got text succeeded and End of a detail without any
\* failed
RequiredTextWitness ==
  /\ status = "error"
  /\ \E i \in Calls("End") :
       heap[log[i].n].cls = "Brief" /\ log[i].ok /\ CallsOn(log[i].n, {"Cdata"}) # {}
  /\ \E i \in Calls("End") :
       heap[log[i].n].cls = "Detail" /\ ~log[i].ok /\ CallsOn(log[i].n, {"Cdata"}) = {}

\* the next event of the running invocation is a CHARACTERS event
AtCharacters == HasEvent /\ Evt.evt = "CHARACTERS"

\* the step makes one call, Cdata on the innermost open element, and changes
\* no stack, no other node and, of that node, at most the text of a brief or
\* a detail
CdataStep ==
  LET top == Last(Cur.dom) IN
  /\ NewCalls = <<Call("Cdata", top, 0, Depth, TRUE)>>
  /\ \A n \in Nodes \ {top} : heap'[n] = heap[n]
  /\ heap[top].cls \notin {"Brief", "Detail"} => heap'[top] = heap[top]
  /\ [heap'[top] EXCEPT !.data = ""] = [heap[top] EXCEPT !.data = ""]

\* C27: every CHARACTERS event that arrives while the stack of the invocation
\* is non-empty causes exactly one Cdata call, on the innermost open element,
\* and leaves the stack unchanged; one that arrives with an empty stack causes
\* no call and no error; for the element types that do not accept text the
\* Cdata call changes nothing and raises nothing
CharactersToInnermost ==
  [][AtCharacters =>
       /\ Len(frames') = Len(frames)
       /\ \A k \in DOMAIN frames : frames'[k].dom = frames[k].dom
       /\ DOMAIN heap' = DOMAIN heap
       /\ status' = status /\ err' = err
       /\ IF Cur.dom # <<>> THEN CdataStep ELSE (log' = log /\ heap' = heap)]_vars

\* a nested invocation has passed character data with its stack empty and has
\* called Cdata on a description, which takes no text
CharactersToInnermostWitness ==
  /\ Depth = 2
  /\ \E j \in 1..(Cur.pos - 1) :
       Cur.evts[j].evt = "CHARACTERS" /\ OpenTags(Cur.evts, j - 1, FALSE) = <<>>
  /\ \E i \in Calls("Cdata") : heap[log[i].n].cls = "Description" /\ log[i].f = 2
  /\ status = "running"

\* C28: a values element that has neither a name attribute nor any value
\* child is rejected at its End with ParseError: an End call on such a node
\* fails and the parse stops with ParseError
AnonymousNeedsValue ==
  \A i \in Calls("End") :
    LET n == log[i].n IN
    /\ heap[n].cls = "Values"
    /\ ~HasAttr(heap[n].attrs, "name")
    /\ ValueNames(heap, n) = {}
    => ~log[i].ok /\ status = "error" /\ err = "ParseError"

\* a values node whose name was generated: it was written without one
IsAnonymous(n) ==
  heap[n].cls = "Values" /\ ~HasAttr(heap[n].attrs, "name") /\ heap[n].name # ""

\* C29: anonymous values naming: the name generated for a values element
\* without a name attribute differs from the name of every other values
\* element, named or anonymous
AnonymousNameUnique ==
  \A a \in Nodes : \A b \in Nodes :
    IsAnonymous(a) /\ heap[b].cls = "Values" /\ b # a
      => heap[a].name # heap[b].name

\* the part of C29 about anonymous elements among themselves
AnonymousNamesDiffer ==
  \A a \in Nodes : \A b \in Nodes :
    IsAnonymous(a) /\ IsAnonymous(b) /\ b # a => heap[a].name # heap[b].name

\* the part of C29 about later reads: a generated name stays as it is
AnonymousNameStable ==
  [][\A n \in Nodes :
       IsAnonymous(n) /\ n \in DOMAIN heap' /\ heap'[n].el = heap[n].el /\ run' = run
         => heap'[n].name = heap[n].name]_vars

\* the names of the attributes element e of the document was written with
DocKeys(e) == {p[1] : p \in DocAttrs(e)}

\* C30: Bits.Start accepts exactly two attribute forms, {start, end} and
\* {mask} alone: with attributes that are all integers, Start of a bits
\* element succeeds when it is written with start and end or with mask alone,
\* and fails with ParseError for every other combination of the three
BitsForms ==
  \A i \in Calls("Start") :
    LET n == log[i].n
        attrs == DocAttrs(heap[n].el)
    IN heap[n].cls = "Bits" /\ (\A p \in attrs : IsInt(p[2])) =>
         /\ log[i].ok <=> DocKeys(heap[n].el) \in {{"start", "end"}, {"mask"}}
         /\ ~log[i].ok => status = "error" /\ err = "ParseError"

\* the forms Bits.Start does accept: start with end, start with mask
BitsFormsAccepted ==
  \A i \in Calls("Start") :
    LET n == log[i].n
        attrs == DocAttrs(heap[n].el)
    IN heap[n].cls = "Bits" /\ (\A p \in attrs : IsInt(p[2])) =>
         /\ log[i].ok <=> DocKeys(heap[n].el) \in {{"start", "end"}, {"start", "mask"}}
         /\ ~log[i].ok => status = "error" /\ err = "ParseError"

\* the validated bits elements: Validate has set their _mask
Masked == {n \in DOMAIN heap : heap[n].cls = "Bits" /\ heap[n].mask # <<>>}

\* the bits numbered s..e of a chunk of size bits, as bit0 numbers them
Numbered(s, e, size, b0) ==
  IF b0 = "LSb" THEN s..e ELSE {size - 1 - i : i \in s..e}

\* C31: the mask of a bits element given by start and end with
\* 0 <= start <= end < chunksize, as buildMask returns it, lies below
\* 2^chunksize and has exactly the bits numbered start..end set, numbered
\* from the least significant bit when bit0 is LSb and from the most
\* significant bit of the chunk when bit0 is MSb
MaskBitsNumbered ==
  \A n \in Masked :
    LET self == heap[n]
        size == chunksize(heap, self.parent)
    IN (HasAttr(self.attrs, "end") /\ 0 <= BitsStart(self)
        /\ BitsStart(self) <= BitsEnd(self) /\ BitsEnd(self) < size)
       => /\ self.mask[1] \subseteq 0..(size - 1)
          /\ Cardinality(self.mask[1]) = BitsEnd(self) - BitsStart(self) + 1
          /\ self.mask[1] = Numbered(BitsStart(self), BitsEnd(self), size, bit0(heap, self.parent))

\* the one bits of the value v of a mask attribute
BitsOf(v) == {i \in 0..5 : (v \div (2 ^ i)) % 2 = 1}

\* len(bin(mask)[2:].strip('0')): from the highest one bit to the lowest
Span(m) ==
  IF m = {} THEN 0
  ELSE (CHOOSE i \in m : \A j \in m : j <= i) - (CHOOSE i \in m : \A j \in m : j >= i) + 1

\* C32: a validated bits element that gives its bits with the mask attribute
\* holds that mask, the enclosing position reports it as its bitmask, and
\* the element's length is the span of the mask
MaskAsGiven ==
  \A n \in Masked :
    HasAttr(heap[n].attrs, "mask")
    => LET given == BitsOf(Numerals[Attr(heap[n].attrs, "mask")])
       IN /\ heap[n].mask[1] = given
          /\ bitmask(heap, heap[n].parent)[1] = given
          /\ BitsLen(heap[n]) = Span(given)

\* the bits elements given by start and end whose Validate raised or
\* returned, with the chunksize their position had for them
Ranged ==
  {n \in DOMAIN heap : /\ heap[n].cls = "Bits" /\ HasAttr(heap[n].attrs, "end")
                       /\ (n \in Masked \/ (status = "invalid" /\ raised = n))}

SizeFor(n) ==
  chunksize(heap, CHOOSE p \in DOMAIN heap : \E i \in DOMAIN heap[p].children : heap[p].children[i] = n)

InsideChunk(n) ==
  0 <= BitsStart(heap[n]) /\ BitsStart(heap[n]) <= BitsEnd(heap[n]) /\ BitsEnd(heap[n]) < SizeFor(n)

\* C33: a bits element whose Validate succeeded has 0 <= start <= end <
\* chunksize of the enclosing protocol, and the Validate of one that has not
\* raises ValidationError
BitsInsideChunk ==
  \A n \in Ranged :
    SizeFor(n) > 0
    => /\ n \in Masked => InsideChunk(n)
       /\ (raised = n /\ status = "invalid" /\ ~InsideChunk(n)) => err = "ValidationError"

\* what Bits.Validate does check: a bits element whose Validate succeeded has
\* start <= end < chunksize, and the Validate of one with an end that is not
\* below the chunksize or is below the start raises ValidationError
BitsEndInsideChunk ==
  \A n \in Ranged :
    SizeFor(n) > 0
    => /\ n \in Masked => (BitsStart(heap[n]) <= BitsEnd(heap[n]) /\ BitsEnd(heap[n]) < SizeFor(n))
       /\ (raised = n /\ status = "invalid"
           /\ (BitsEnd(heap[n]) >= SizeFor(n) \/ BitsEnd(heap[n]) < BitsStart(heap[n])))
          => err = "ValidationError"

\* the positions of the validated trees, which have their chunksize
Positioned ==
  {p \in DOMAIN heap : heap[p].cls = "Position" /\ heap[p].parent # 0
                       /\ Slot(heap, p, "bits") \in Masked \cup {0}
                       /\ p \in UNION {TreeNodes(heap, v) : v \in Range(validated)}}

\* the position r covers the operand a
Covers(r, a) ==
  r.index <= a.index /\ r.index + r.chunks[1] >= a.index + chunklength(a)

\* C34: a | b of two positions of one chunksize is a chunk range at the
\* smaller of the two indices that covers both operands, and b | a is the same
PositionOrCovers ==
  \A p \in Positioned : \A q \in Positioned :
    LET a == PositionOf(heap, p)
        b == PositionOf(heap, q)
        r == PositionOr(a, b)
    IN a.chunksize = b.chunksize
       => /\ r.chunks # <<>>
          /\ r.index = Min(a.index, b.index)
          /\ Covers(r, a)
          /\ Covers(r, b)
          /\ r = PositionOr(b, a)

\* what Position.__or__ does give: a chunk range at the smaller index that
\* covers every operand that is a chunk range, and the same for b | a
PositionOrCoversChunks ==
  \A p \in Positioned : \A q \in Positioned :
    LET a == PositionOf(heap, p)
        b == PositionOf(heap, q)
        r == PositionOr(a, b)
    IN a.chunksize = b.chunksize
       => /\ r.chunks # <<>>
          /\ r.index = Min(a.index, b.index)
          /\ a.chunks # <<>> => Covers(r, a)
          /\ b.chunks # <<>> => Covers(r, b)
          /\ r = PositionOr(b, a)

\* the containers of the elements the caller has pulled
PulledContainers ==
  {n \in UNION {TreeNodes(heap, r) : r \in Range(results)} :
     IsMessage(heap[n].cls) \/ heap[n].cls = "Protocol"}

RECURSIVE Nested(_, _)
\* a container with the containers nested in it: its header and trailer
\* and, with messages, the messages of a protocol, and theirs
Nested(n, messages) ==
  {n} \cup UNION {Nested(c, messages) :
                    c \in ({Slot(heap, n, "header"), Slot(heap, n, "trailer")} \ {0})
                          \cup (IF messages /\ heap[n].cls = "Protocol"
                                THEN Range(ChildrenTagged(heap, n, "message")) ELSE {})}

\* the container has a field child
HoldsField(c) == IsMessage(heap[c].cls) /\ ChildrenTagged(heap, c, "field") # <<>>

\* C35 as stated: hasFields() of a protocol, message, header or trailer is
\* true exactly if the container or a container nested in it, the messages
\* of a protocol among them, holds a field
HasFieldsCounted ==
  \A n \in PulledContainers : hasFields(heap, n) <=> \E c \in Nested(n, TRUE) : HoldsField(c)

\* C35: hasFields() of a protocol, message, header or trailer is true
\* exactly if the container or a header or trailer nested in it holds a
\* field; the messages of a protocol are not counted
HasFieldsNested ==
  \A n \in PulledContainers : hasFields(heap, n) <=> \E c \in Nested(n, FALSE) : HoldsField(c)

\* a pulled container without a field of its own has fields through its
\* header, and a pulled protocol has them through its header while a message
\* of it holds a field as well
HasFieldsNestedWitness ==
  /\ \E n \in PulledContainers : ~HoldsField(n) /\ hasFields(heap, n)
  /\ \E n \in PulledContainers :
       /\ heap[n].cls = "Protocol" /\ hasFields(heap, n)
       /\ \E c \in Range(ChildrenTagged(heap, n, "message")) : HoldsField(c)

\* the value attribute k has after Protocol.Start of element e: the one the
\* document gives, else the default
Given(e, k, default) == IF HasAttr(DocAttrs(e), k) THEN Attr(DocAttrs(e), k) ELSE default

\* C36: Protocol.Start fails with ParseError exactly when the element gives
\* a chunksize, bit0 or endian outside 8, 16, 32, outside MSb, LSb or outside
\* big, little; after a Start that succeeded each of the three has the value
\* given, which is of its set, or its default: chunksize 8, bit0 LSb, endian big
ProtocolStart ==
  \A i \in Calls("Start") :
    LET n == log[i].n
        e == heap[n].el
    IN heap[n].cls = "Protocol" =>
         /\ log[i].ok <=> /\ Given(e, "chunksize", "8") \in Chunksizes
                          /\ Given(e, "bit0", "LSb") \in Bit0s
                          /\ Given(e, "endian", "big") \in Endians
         /\ ~log[i].ok => status = "error" /\ err = "ParseError"
         /\ log[i].ok => /\ chunksize(heap, n) \in {8, 16, 32}
                         /\ chunksize(heap, n) = Numerals[Given(e, "chunksize", "8")]
                         /\ bit0(heap, n) \in {"MSb", "LSb"}
                         /\ bit0(heap, n) = Given(e, "bit0", "LSb")
                         /\ endian(heap, n) \in {"big", "little"}
                         /\ endian(heap, n) = Given(e, "endian", "big")

\* the Start of a protocol written with a chunksize and a bit0 and without
\* an endian has succeeded
ProtocolStartWitness ==
  \E i \in Calls("Start") :
    /\ heap[log[i].n].cls = "Protocol" /\ log[i].ok
    /\ DocKeys(heap[log[i].n].el) = {"chunksize", "bit0"}
    /\ bit0(heap, log[i].n) = "MSb" /\ endian(heap, log[i].n) = "big"

\* the event the parse is at is of none of the five kinds the engine handles
AtOtherEvent ==
  HasEvent /\ Evt.evt \notin {"START_ELEMENT", "END_ELEMENT", "CHARACTERS",
                              "START_DOCUMENT", "END_DOCUMENT"}

\* C37: an event of any other kind than start-element, end-element,
\* characters, start-document and end-document, at top level or in a nested
\* invocation, leaves the stacks and all nodes as they are, raises no error,
\* and the parse goes on with the next event
OtherEventsIgnored ==
  [][AtOtherEvent
       => (/\ heap' = heap
           /\ Len(frames') = Len(frames)
           /\ \A k \in DOMAIN frames : frames'[k].dom = frames[k].dom
           /\ frames'[Depth].pos = Cur.pos + 1
           /\ status' = "running"
           /\ err' = "")]_vars

\* what the engine does with such an event: the stacks and the nodes stay as
\* they are and the parse ends there with AttributeError
OtherEventsRaise ==
  [][AtOtherEvent
       => (/\ heap' = heap
           /\ \A k \in DOMAIN frames : frames'[k].dom = frames[k].dom
           /\ status' = "error"
           /\ err' = "AttributeError")]_vars

====
